---- MODULE Spec2Model ----
(***************************************************************************)
(* A model of the weather-union client library (src/src/lib.rs).           *)
(*                                                                         *)
(* The library turns an HTTP response (status code + JSON body) into       *)
(* Result<LocalityWeatherData, WeatherResponseError>.  The model keeps     *)
(* these views of it:                                                      *)
(*   SpecInterp  one call of process_payload on every (status, body) of a  *)
(*               bounded input family, step by step (match on the status,  *)
(*               then the awaited read of the body);                       *)
(*   Spec        clients issuing calls that the transport answers, several *)
(*               calls in flight at once, each ending in process_payload;  *)
(*   SpecDir     LocalityId over the whole locality table;                 *)
(*   SpecLib     one caller using the whole library, one call at a time;   *)
(*   SpecLive    the calls of Spec, awaited: fairness of the calls' steps. *)
(***************************************************************************)
EXTENDS Integers, Sequences, FiniteSets, TLC

VARIABLES
    api_key,   \* WeatherUnion.api_key of every client instance
    calls,     \* the calls in flight: one record per call slot
    interp,    \* the single interpretation SpecInterp follows
    lid        \* the LocalityId the caller holds and the last answer about it

vars == <<api_key, calls, interp, lid>>

(***************************************************************************)
(* Bounds of the model.                                                    *)
(***************************************************************************)
\* measurement values a body may carry are 1..MaxValue
MaxValue == 2

(***************************************************************************)
(* reqwest::StatusCode constants named by the match of process_payload.    *)
(***************************************************************************)
OK == 200
INTERNAL_SERVER_ERROR == 500
BAD_REQUEST == 400
TOO_MANY_REQUESTS == 429
FORBIDDEN == 403
\* device_type: u8
U8Max == 255

\* the status codes the transport may answer with
Statuses == {200, 201, 204, 400, 401, 403, 418, 429, 500}

\* the api keys clients are built from
Keys == {"key-a", "key-b"}
Clients == {"w1", "w2"}
CallIds == {"c1", "c2"}

(***************************************************************************)
(* JSON values as serde_json sees them.  A leaf is tagged by its JSON      *)
(* type; "absent" stands for a key that is not there.  "int" is a number   *)
(* literal without fraction or exponent, "float" one with (v is its        *)
(* integral part: JFloat(7) is the literal 7.0).                           *)
(***************************************************************************)
JAbsent == [t |-> "absent", v |-> 0, s |-> ""]
JNull == [t |-> "null", v |-> 0, s |-> ""]
JInt(n) == [t |-> "int", v |-> n, s |-> ""]
JFloat(n) == [t |-> "float", v |-> n, s |-> ""]
JStr(x) == [t |-> "str", v |-> 0, s |-> x]
JArr == [t |-> "arr", v |-> 0, s |-> ""]
\* a JSON object: o maps each key that is present to its value
JObj(m) == [t |-> "obj", v |-> 0, s |-> "", o |-> m]

MeasurementKeys ==
    {"temperature", "humidity", "wind_speed", "wind_direction",
     "rain_intensity", "rain_accumulation"}

\* a key of locality_weather_data that is not one of the six measurements
ExtraKey == "station_id"

\* the object whose keys are those f does not map to JAbsent
ObjOf(f) == [k \in {x \in DOMAIN f : f[x] # JAbsent} |-> f[k]]

(***************************************************************************)
(* A response body.  readable = FALSE: reading the body fails before it is *)
(* complete (Response::text returns Err).  form is the shape of the text:  *)
(* not JSON at all, a JSON scalar, a JSON object with the three top-level  *)
(* keys below (JAbsent for a missing key), or a JSON array holding the     *)
(* three values in this order (JAbsent: the array ends before it).         *)
(***************************************************************************)
MkBody(r, f, m, l, d) ==
    [readable |-> r, form |-> f, message |-> m,
     locality_weather_data |-> l, device_type |-> d]

Unreadable == MkBody(FALSE, "notjson", JAbsent, JAbsent, JAbsent)
NotJson == MkBody(TRUE, "notjson", JAbsent, JAbsent, JAbsent)
Scalar == MkBody(TRUE, "scalar", JAbsent, JAbsent, JAbsent)
ObjBody(m, l, d) == MkBody(TRUE, "object", m, l, d)
ArrBody(m, l, d) == MkBody(TRUE, "array", m, l, d)

(***************************************************************************)
(* BodyValues and its derived Deserialize (lib.rs 12-17), as serde_json    *)
(* decodes it in from_str::<BodyValues> (lib.rs 46-47).                    *)
(***************************************************************************)
None == [some |-> FALSE, v |-> 0]
Some(x) == [some |-> TRUE, v |-> x]

\* message: String -- a JSON string and nothing else
IsString(j) == j.t = "str"

\* IsOptionF64 had the map been declared HashMap<String, f64>: null refused
IsOptionF64_NoNull(j) == j.t \in {"int", "float"}

\* an entry of HashMap<String, Option<f64>>: null, or any number literal
IsOptionF64(j) == j.t \in {"null", "int", "float"}

\* Option<f64> of a JSON null or number
OptionF64(j) == IF j.t = "null" THEN None ELSE Some(j.v)

\* IsLocalityWeatherData looking at the six measurement keys only
IsLocalityWeatherData_SixKeysOnly(j) ==
    /\ j.t = "obj"
    /\ \A k \in DOMAIN j.o \cap MeasurementKeys : IsOptionF64(j.o[k])

\* locality_weather_data: HashMap<String, Option<f64>> -- a JSON object
\* every value of which, under whatever key, is null or a number
IsLocalityWeatherData(j) ==
    /\ j.t = "obj"
    /\ \A k \in DOMAIN j.o : IsOptionF64(j.o[k])

\* IsU8 had the field been a wider integer, cast to u8 for the record
IsU8_AnyInteger(j) == j.t = "int"

\* device_type: u8 -- an integer literal in 0..255 (a literal with a
\* fraction is refused whatever its value)
IsU8(j) == j.t = "int" /\ 0 <= j.v /\ j.v <= U8Max

\* The derived visitor takes the struct from a JSON object (visit_map: every
\* field required, none of them an Option) and also from a JSON array of the
\* three fields in declaration order (visit_seq).
ParseOk(body) ==
    /\ body.form \in {"object", "array"}
    /\ IsString(body.message)
    /\ IsLocalityWeatherData(body.locality_weather_data)
    /\ IsU8(body.device_type)

NoBodyValues == [ok |-> FALSE, message |-> "", locality_weather_data |-> <<>>, device_type |-> 0]

\* serde_json::from_str::<BodyValues>(body): Ok(BodyValues) or Err
ParseBodyValues(body) ==
    IF ParseOk(body)
    THEN [ok |-> TRUE,
          message |-> body.message.s,
          locality_weather_data |->
              [k \in DOMAIN body.locality_weather_data.o |->
                  OptionF64(body.locality_weather_data.o[k])],
          device_type |-> body.device_type.v]
    ELSE NoBodyValues

(***************************************************************************)
(* Result<LocalityWeatherData, WeatherResponseError>, plus the two         *)
(* outcomes that are no Result: a call still running, and a panic.         *)
(***************************************************************************)
NoData ==
    [device |-> 0, temperature |-> 0, humidity |-> 0, wind_speed |-> 0,
     wind_direction |-> 0, rain_intensity |-> 0, rain_accumulation |-> 0]

Res(tag, m, st, d) == [tag |-> tag, message |-> m, status |-> st, data |-> d]
Pending == Res("Pending", "", 0, NoData)
Panic == Res("Panic", "", 0, NoData)
OkData(d) == Res("Ok", "", 0, d)
ErrorRetrievingData == Res("ErrorRetrievingData", "", 0, NoData)
NotSupported == Res("NotSupported", "", 0, NoData)
ApiKeyLimitExhausted == Res("ApiKeyLimitExhausted", "", 0, NoData)
CouldNotAuthenticate == Res("CouldNotAuthenticate", "", 0, NoData)
TemporarilyUnavailable(m) == Res("TemporarilyUnavailable", m, 0, NoData)
UnknownError(st) == Res("UnknownError", "", st, NoData)
InvalidResponse == Res("InvalidResponse", "", 0, NoData)

ErrorTags ==
    {"ErrorRetrievingData", "NotSupported", "ApiKeyLimitExhausted",
     "CouldNotAuthenticate", "TemporarilyUnavailable", "UnknownError",
     "InvalidResponse"}

(***************************************************************************)
(* process_payload (lib.rs 41-95).                                         *)
(***************************************************************************)
\* one field of the record: the value under key k, 0.0 when the key is
\* absent or its value is None
Measurement(parsed, k) ==
    IF k \in DOMAIN parsed.locality_weather_data
       /\ parsed.locality_weather_data[k].some
    THEN parsed.locality_weather_data[k].v
    ELSE 0

\* LocalityWeatherData with temperature and humidity read from each other's key
LocalityWeatherData_Swapped(parsed) ==
    [device |-> parsed.device_type,
     temperature |-> Measurement(parsed, "humidity"),
     humidity |-> Measurement(parsed, "temperature"),
     wind_speed |-> Measurement(parsed, "wind_speed"),
     wind_direction |-> Measurement(parsed, "wind_direction"),
     rain_intensity |-> Measurement(parsed, "rain_intensity"),
     rain_accumulation |-> Measurement(parsed, "rain_accumulation")]

LocalityWeatherData(parsed) ==
    [device |-> parsed.device_type,
     temperature |-> Measurement(parsed, "temperature"),
     humidity |-> Measurement(parsed, "humidity"),
     wind_speed |-> Measurement(parsed, "wind_speed"),
     wind_direction |-> Measurement(parsed, "wind_direction"),
     rain_intensity |-> Measurement(parsed, "rain_intensity"),
     rain_accumulation |-> Measurement(parsed, "rain_accumulation")]

\* FromBodyValues without the message check: every parsed 200 is a record
FromBodyValues_NoMessageCheck(parsed) == OkData(LocalityWeatherData(parsed))

\* what the 200 arm makes of a parsed body
FromBodyValues(parsed) ==
    IF parsed.message # ""
    THEN TemporarilyUnavailable(parsed.message)
    ELSE OkData(LocalityWeatherData(parsed))

\* OkArm looking at message before the rest of the body is decoded
OkArm_MessageFirst(body) ==
    IF ~body.readable THEN Panic
    ELSE IF /\ body.form \in {"object", "array"}
            /\ IsString(body.message)
            /\ body.message.s # ""
         THEN TemporarilyUnavailable(body.message.s)
    ELSE IF ~ParseBodyValues(body).ok THEN InvalidResponse
    ELSE FromBodyValues(ParseBodyValues(body))

\* the 200 arm: payload.text().await.unwrap(), the parse, the message check
OkArm(body) ==
    IF ~body.readable THEN Panic
    ELSE IF ~ParseBodyValues(body).ok THEN InvalidResponse
    ELSE FromBodyValues(ParseBodyValues(body))

\* StatusArm with the results of the 400 and 403 arms exchanged
StatusArm_Swapped400And403(status) ==
    CASE status = INTERNAL_SERVER_ERROR -> ErrorRetrievingData
      [] status = BAD_REQUEST -> CouldNotAuthenticate
      [] status = TOO_MANY_REQUESTS -> ApiKeyLimitExhausted
      [] status = FORBIDDEN -> NotSupported
      [] OTHER -> UnknownError(status)

\* StatusArm with every status that has no arm of its own an InvalidResponse
StatusArm_OtherIsInvalidResponse(status) ==
    CASE status = INTERNAL_SERVER_ERROR -> ErrorRetrievingData
      [] status = BAD_REQUEST -> NotSupported
      [] status = TOO_MANY_REQUESTS -> ApiKeyLimitExhausted
      [] status = FORBIDDEN -> CouldNotAuthenticate
      [] OTHER -> InvalidResponse

\* the arms of the match for every status other than 200
StatusArm(status) ==
    CASE status = INTERNAL_SERVER_ERROR -> ErrorRetrievingData
      [] status = BAD_REQUEST -> NotSupported
      [] status = TOO_MANY_REQUESTS -> ApiKeyLimitExhausted
      [] status = FORBIDDEN -> CouldNotAuthenticate
      [] OTHER -> UnknownError(status)

\* process_payload taking every 2xx status for success (status.is_success())
process_payload_AnySuccess(self, status, body) ==
    IF status \in 200..299 THEN OkArm(body) ELSE StatusArm(status)

\* process_payload refusing one api key on its own account
process_payload_ChecksKey(self, status, body) ==
    IF self = "key-b" THEN CouldNotAuthenticate
    ELSE IF status = OK THEN OkArm(body) ELSE StatusArm(status)

\* process_payload(&self, payload) for a payload of this status and body;
\* self is the api key of the client it is called on
process_payload(self, status, body) ==
    IF status = OK THEN OkArm(body) ELSE StatusArm(status)

(***************************************************************************)
(* The inputs the model draws from.                                        *)
(***************************************************************************)
Messages == {"", "station offline"}
DeviceTypes == {0, U8Max}

\* what a measurement key may hold in a well-formed body: nothing (the key
\* is absent), null, or a number
MeasurementValues == {JAbsent, JNull} \cup {JInt(n) : n \in 1..MaxValue}

\* every locality_weather_data object over the six measurement keys
MeasurementObjects == {ObjOf(f) : f \in [MeasurementKeys -> MeasurementValues]}

\* the bodies of the wire contract: a JSON object with a string message, an
\* integer device_type and the measurements, each a number, null or absent
WireBodies ==
    {ObjBody(JStr(m), JObj(o), JInt(d)) :
        m \in Messages, o \in MeasurementObjects, d \in DeviceTypes}

\* all six measurements present, the key of each holding a different number
AllSix ==
    [k \in MeasurementKeys |->
        CASE k = "temperature" -> JInt(1)
          [] k = "humidity" -> JInt(2)
          [] k = "wind_speed" -> JInt(3)
          [] k = "wind_direction" -> JInt(4)
          [] k = "rain_intensity" -> JInt(5)
          [] k = "rain_accumulation" -> JFloat(6)]

\* AllSix with one more key holding j
WithExtra(j) == [k \in MeasurementKeys \cup {ExtraKey} |-> IF k = ExtraKey THEN j ELSE AllSix[k]]

\* bodies of every other shape: each top-level value missing or of each JSON
\* type, in an object and in an array
ShapeMessages == {JAbsent, JNull, JInt(1), JStr(""), JStr("station offline")}
ShapeData ==
    {JAbsent, JNull, JInt(1), JStr("sunny"), JArr,
     JObj(<<>>), JObj(AllSix),
     JObj([AllSix EXCEPT !["humidity"] = JStr("wet")]),
     JObj([AllSix EXCEPT !["humidity"] = JArr]),
     JObj(WithExtra(JInt(9))), JObj(WithExtra(JNull)),
     JObj(WithExtra(JStr("S-17")))}
ShapeDeviceTypes ==
    {JAbsent, JNull, JStr("1"), JInt(7), JInt(U8Max), JInt(U8Max + 1),
     JInt(-1), JFloat(7)}
ShapeBodies ==
    {MkBody(TRUE, f, m, l, d) :
        f \in {"object", "array"}, m \in ShapeMessages, l \in ShapeData,
        d \in ShapeDeviceTypes}

Bodies == {Unreadable, NotJson, Scalar} \cup WireBodies \cup ShapeBodies

(***************************************************************************)
(* The locality table (lib.rs 212-792), one row per locality_id! entry in  *)
(* the order of the source: the code, the name of the constant, the area   *)
(* name and the coordinates.  An f64 of the table is held in millionths of *)
(* a degree (every literal of the table has six decimals): 12.936787 is    *)
(* 12936787.                                                               *)
(***************************************************************************)
\* E with the match arms keyed by the area name instead of the code
E_KeyedByArea(str, konst, area, lat, long) ==
    [code |-> area, konst |-> konst, name |-> area, lat |-> lat, long |-> long]

E(str, konst, area, lat, long) ==
    [code |-> str, konst |-> konst, name |-> area, lat |-> lat, long |-> long]

Directory == <<
    E("ZWL005764", "ZWL005764", "Delhi NCR Sarita Vihar", 28531759, 77293973),
    E("ZWL008752", "ZWL008752", "Delhi NCR Faridabad Sector 41-50", 28460895, 77304764),
    E("ZWL005996", "ZWL005996", "Delhi NCR New Friends Colony", 28565268, 77274971),
    E("ZWL005243", "ZWL005243", "Delhi NCR Sector 26 (Noida)", 28574404, 77334178),
    E("ZWL009032", "ZWL009032", "Delhi NCR New Industrial Town", 28375702, 77299442),
    E("ZWL005428", "ZWL005428", "Delhi NCR Tilak Nagar", 28641372, 77094689),
    E("ZWL001073", "ZWL001073", "Delhi NCR Sector 10, Gurgaon", 28436077, 76996757),
    E("ZWL001319", "ZWL001319", "Delhi NCR Ashok Vihar, Delhi", 28684453, 77174418),
    E("ZWL004800", "ZWL004800", "Delhi NCR Kalkaji", 28529029, 77258939),
    E("ZWL003118", "ZWL003118", "Delhi NCR Sector 53", 28442743, 77104379),
    E("ZWL002091", "ZWL002091", "Delhi NCR Sector 49", 28408012, 77050064),
    E("ZWL002662", "ZWL002662", "Delhi NCR Vasundhara", 28665225, 77366782),
    E("ZWL001404", "ZWL001404", "Delhi NCR Rajinder Nagar", 28640732, 77182900),
    E("ZWL008963", "ZWL008963", "Delhi NCR Safdarjung Enclave", 28562608, 77191457),
    E("ZWL006538", "ZWL006538", "Delhi NCR Connaught Place", 28630630, 77220640),
    E("ZWL003075", "ZWL003075", "Delhi NCR Sector 66", 28380856, 77062751),
    E("ZWL003721", "ZWL003721", "Delhi NCR Sector 57", 28422100, 77082740),
    E("ZWL006396", "ZWL006396", "Delhi NCR Moti Bagh, Delhi", 28575774, 77180697),
    E("ZWL004535", "ZWL004535", "Delhi NCR Patel Nagar, Delhi", 28652848, 77167909),
    E("ZWL008554", "ZWL008554", "Delhi NCR Greater Noida", 28456171, 77521577),
    E("ZWL004533", "ZWL004533", "Delhi NCR Karkardooma, Delhi", 28656829, 77310553),
    E("ZWL002179", "ZWL002179", "Delhi NCR Tigaon", 28417120, 77412569),
    E("ZWL007487", "ZWL007487", "Delhi NCR Sector 50 (Noida)", 28569103, 77364876),
    E("ZWL007120", "ZWL007120", "Delhi NCR Vasant Kunj, Delhi", 28524633, 77151206),
    E("ZWL007486", "ZWL007486", "Delhi NCR Dwarka, Delhi", 28594467, 77047747),
    E("ZWL006287", "ZWL006287", "Delhi NCR Sector 15", 28457927, 77034816),
    E("ZWL002146", "ZWL002146", "Delhi NCR Mayur Vihar Phase III", 28606000, 77323675),
    E("ZWL008405", "ZWL008405", "Delhi NCR Crossing Republik", 28635043, 77419056),
    E("ZWL004455", "ZWL004455", "Delhi NCR Sector 28", 28473457, 77087532),
    E("ZWL005087", "ZWL005087", "Delhi NCR Palam Vihar, Gurgaon", 28508782, 77033506),
    E("ZWL009648", "ZWL009648", "Delhi NCR Sector 63 (Noida)", 28621672, 77386474),
    E("ZWL008317", "ZWL008317", "Delhi NCR Raj Nagar, Ghaziabad", 28689174, 77428976),
    E("ZWL005878", "ZWL005878", "Delhi NCR Sector 128", 28526706, 77354868),
    E("ZWL003241", "ZWL003241", "Delhi NCR Sector 56, Gurgaon", 28418235, 77101860),
    E("ZWL007224", "ZWL007224", "Delhi NCR Indirapuram", 28644059, 77373883),
    E("ZWL009834", "ZWL009834", "Delhi NCR Malviya Nagar", 28536048, 77213453),
    E("ZWL007284", "ZWL007284", "Delhi NCR Sector 43, Gurgaon", 28454416, 77088820),
    E("ZWL006738", "ZWL006738", "Delhi NCR Sector 120 (Noida)", 28586854, 77390832),
    E("ZWL007329", "ZWL007329", "Delhi NCR Saket", 28523171, 77207543),
    E("ZWL001752", "ZWL001752", "Delhi NCR Sector 18 (Noida)", 28568937, 77324414),
    E("ZWL007594", "ZWL007594", "Delhi NCR Naraina", 28627479, 77142115),
    E("ZWL006116", "ZWL006116", "Delhi NCR Patparganj", 28632961, 77308344),
    E("ZWL009925", "ZWL009925", "Delhi NCR Ghitorni", 28486412, 77125366),
    E("ZWL009335", "ZWL009335", "Delhi NCR Faridabad Sector 1-11", 28365131, 77326157),
    E("ZWL009638", "ZWL009638", "Delhi NCR Sector 24", 28497419, 77090980),
    E("ZWL005670", "ZWL005670", "Delhi NCR Rajouri Garden", 28646438, 77122357),
    E("ZWL003757", "ZWL003757", "Delhi NCR Vishnu Garden", 28646933, 77095064),
    E("ZWL003610", "ZWL003610", "Delhi NCR Sector 48, Gurgaon", 28416008, 77032164),
    E("ZWL005971", "ZWL005971", "Delhi NCR Kirti Nagar", 28654433, 77142367),
    E("ZWL003626", "ZWL003626", "Delhi NCR Faridabad Sector 81-89", 28397247, 77345569),
    E("ZWL005876", "ZWL005876", "Delhi NCR GK I", 28550911, 77235272),
    E("ZWL006295", "ZWL006295", "Delhi NCR Mohan Estate", 28494788, 77312727),
    E("ZWL007653", "ZWL007653", "Delhi NCR Mukherjee Nagar", 28702971, 77209740),
    E("ZWL006697", "ZWL006697", "Delhi NCR Mehrauli", 28524426, 77183996),
    E("ZWL003259", "ZWL003259", "Delhi NCR Burari", 28753669, 77191037),
    E("ZWL004759", "ZWL004759", "Delhi NCR Gaur city, Ghaziabad", 28607703, 77434385),
    E("ZWL004477", "ZWL004477", "Delhi NCR GK II", 28533936, 77243800),
    E("ZWL005077", "ZWL005077", "Delhi NCR Rohini", 28723712, 77104596),
    E("ZWL008191", "ZWL008191", "Delhi NCR Rangpuri", 28533976, 77119516),
    E("ZWL006092", "ZWL006092", "Delhi NCR Sector 46", 28438586, 77060773),
    E("ZWL001549", "ZWL001549", "Delhi NCR Sector 62 (Noida)", 28611088, 77369652),
    E("ZWL001036", "ZWL001036", "Delhi NCR Shalimar Bagh", 28720312, 77164849),
    E("ZWL006996", "ZWL006996", "Delhi NCR Model Town", 28717232, 77194643),
    E("ZWL007566", "ZWL007566", "Delhi NCR Faridabad Sector 16-20", 28422437, 77310113),
    E("ZWL009852", "ZWL009852", "Delhi NCR Sector 2 (Noida)", 28581459, 77316720),
    E("ZWL008648", "ZWL008648", "Delhi NCR Govindpuram", 28689317, 77486930),
    E("ZWL009728", "ZWL009728", "Delhi NCR Gwal Pahari", 28435122, 77136308),
    E("ZWL006868", "ZWL006868", "Delhi NCR Nehru Nagar", 28653441, 77449969),
    E("ZWL002067", "ZWL002067", "Delhi NCR Chittaranjan Park", 28537530, 77249070),
    E("ZWL008791", "ZWL008791", "Delhi NCR IMT Manesar", 28384492, 76941950),
    E("ZWL003043", "ZWL003043", "Delhi NCR Sector 73 Z Kitchen", 28580105, 77385436),
    E("ZWL004159", "ZWL004159", "Delhi NCR Sector 51", 28430042, 77065213),
    E("ZWL005960", "ZWL005960", "Delhi NCR Ballabhgarh", 28343049, 77330317),
    E("ZWL009293", "ZWL009293", "Delhi NCR Nangloi", 28659524, 77060800),
    E("ZWL001663", "ZWL001663", "Delhi NCR Uttam Nagar", 28616774, 77057136),
    E("ZWL005762", "ZWL005762", "Delhi NCR Sector 47", 28424524, 77050065),
    E("ZWL005345", "ZWL005345", "Delhi NCR Paharganj", 28645112, 77212824),
    E("ZWL008225", "ZWL008225", "Delhi NCR Sector 25", 28484268, 77084693),
    E("ZWL001933", "ZWL001933", "Delhi NCR Pitampura", 28688724, 77138225),
    E("ZWL003591", "ZWL003591", "Delhi NCR Shahdara", 28688657, 77278267),
    E("ZWL007061", "ZWL007061", "Delhi NCR Sector 31", 28442946, 77057195),
    E("ZWL008476", "ZWL008476", "Delhi NCR Sector 23", 28509080, 77057138),
    E("ZWL009008", "ZWL009008", "Delhi NCR Sector 12 (Noida)", 28599952, 77343188),
    E("ZWL005323", "ZWL005323", "Delhi NCR Mayur Vihar Phase II", 28613695, 77302775),
    E("ZWL001412", "ZWL001412", "Delhi NCR Faridabad Sector 12-15", 28394334, 77324016),
    E("ZWL005925", "ZWL005925", "Delhi NCR DLF PHASE 1 (SECTOR 26)", 28477910, 77103843),
    E("ZWL008716", "ZWL008716", "Delhi NCR Laxmi Nagar", 28627366, 77279200),
    E("ZWL009339", "ZWL009339", "Delhi NCR Karol Bagh", 28647924, 77190463),
    E("ZWL009096", "ZWL009096", "Delhi NCR Chhatarpur", 28497203, 77171629),
    E("ZWL006720", "ZWL006720", "Delhi NCR Paschim Vihar", 28665591, 77098478),
    E("ZWL002908", "ZWL002908", "Delhi NCR Sector 1, Noida", 28573663, 77415427),
    E("ZWL001186", "ZWL001186", "Delhi NCR South Extension I", 28578498, 77223627),
    E("ZWL004789", "ZWL004789", "Delhi NCR Sector 18", 28495291, 77069729),
    E("ZWL008978", "ZWL008978", "Delhi NCR Kamla Nagar", 28676018, 77208446),
    E("ZWL007903", "ZWL007903", "Delhi NCR Janakpuri", 28623431, 77097814),
    E("ZWL008897", "ZWL008897", "Delhi NCR Vikaspuri", 28645655, 77065922),
    E("ZWL007431", "ZWL007431", "Delhi NCR Najafgarh", 28607458, 76995980),
    E("ZWL001112", "ZWL001112", "Delhi NCR Mayur Vihar Phase 1", 28609961, 77296133),
    E("ZWL008649", "ZWL008649", "Delhi NCR Sez Noida 1", 28507448, 77410089),
    E("ZWL006384", "ZWL006384", "Delhi NCR Gulavali, Noida", 28436941, 77456903),
    E("ZWL007840", "ZWL007840", "Delhi NCR Sector 14", 28471738, 77045472),
    E("ZWL002072", "ZWL002072", "Delhi NCR Sector 76(Noida)", 28570828, 77390429),
    E("ZWL003077", "ZWL003077", "Delhi NCR Green Park", 28562981, 77209729),
    E("ZWL005395", "ZWL005395", "Delhi NCR Munirka", 28554395, 77172547),
    E("ZWL005729", "ZWL005729", "Delhi NCR NEHRU PLACE", 28555622, 77250890),
    E("ZWL005736", "ZWL005736", "Delhi NCR Lajpat Nagar", 28565415, 77247221),
    E("ZWL007212", "ZWL007212", "Delhi NCR Sector 52 (Noida)", 28595742, 77362995),
    E("ZWL004803", "ZWL004803", "Delhi NCR Sector 100 (Noida)", 28547583, 77370951),
    E("ZWL003444", "ZWL003444", "Delhi NCR Sector 50", 28418947, 77059581),
    E("ZWL008293", "ZWL008293", "Delhi NCR Dilshad Garden", 28684684, 77320986),
    E("ZWL007308", "ZWL007308", "Delhi NCR Sector 29, Gurgaon", 28459498, 77061046),
    E("ZWL008219", "ZWL008219", "Delhi NCR SUSHANT LOK 1", 28467923, 77076530),
    E("ZWL006234", "ZWL006234", "Delhi NCR SAHIBABAD", 28682920, 77362827),
    E("ZWL007666", "ZWL007666", "Delhi NCR Sector 45 (Noida)", 28555596, 77345713),
    E("ZWL002490", "ZWL002490", "Delhi NCR Sector 84", 28395433, 76967436),
    E("ZWL007138", "ZWL007138", "Delhi NCR Sector 7, Gurgaon", 28476288, 77013365),
    E("ZWL009706", "ZWL009706", "Delhi NCR Sector 27", 28465260, 77085742),
    E("ZWL001267", "ZWL001267", "Delhi NCR Hauz Khas", 28551132, 77211401),
    E("ZWL003552", "ZWL003552", "Delhi NCR Jangpura", 28583630, 77246915),
    E("ZWL008401", "ZWL008401", "Delhi NCR Sector 52, Gurgaon", 28443858, 77083991),
    E("ZWL001758", "ZWL001758", "Delhi NCR Vaishali, Ghaziabad", 28649375, 77336609),
    E("ZWL003128", "ZWL003128", "Kolkata Shibpur", 22578477, 88315675),
    E("ZWL004322", "ZWL004322", "Kolkata Kalyani 1, Kolkata", 22983813, 88427417),
    E("ZWL002495", "ZWL002495", "Kolkata Bansdroni", 22472208, 88357875),
    E("ZWL009257", "ZWL009257", "Kolkata Bow Barracks", 22565476, 88360918),
    E("ZWL005435", "ZWL005435", "Kolkata Baranagar, Kolkata", 22660464, 88374255),
    E("ZWL007041", "ZWL007041", "Kolkata Sonarpur, Kolkata", 22432033, 88408369),
    E("ZWL002918", "ZWL002918", "Kolkata Ballygunge", 22532686, 88362677),
    E("ZWL003388", "ZWL003388", "Kolkata Sinthi, Kolkata", 22627697, 88380719),
    E("ZWL008806", "ZWL008806", "Kolkata Salt Lake 2", 22583560, 88432176),
    E("ZWL008635", "ZWL008635", "Kolkata Alipore", 22536626, 88331142),
    E("ZWL002312", "ZWL002312", "Kolkata Baguihati", 22614990, 88426184),
    E("ZWL001499", "ZWL001499", "Kolkata South Dum Dum", 22621570, 88408915),
    E("ZWL003315", "ZWL003315", "Kolkata Purba Barisha", 22474612, 88320775),
    E("ZWL003794", "ZWL003794", "Kolkata Jadavpur", 22498720, 88362540),
    E("ZWL006574", "ZWL006574", "Kolkata Tollygunge", 22498620, 88351732),
    E("ZWL004138", "ZWL004138", "Kolkata Shyam Bazar", 22594302, 88377284),
    E("ZWL009022", "ZWL009022", "Kolkata Behala", 22488571, 88306630),
    E("ZWL003271", "ZWL003271", "Kolkata Chandannagar, Kolkata", 22865442, 88367339),
    E("ZWL003951", "ZWL003951", "Kolkata Barrackpore", 22766771, 88361552),
    E("ZWL003915", "ZWL003915", "Kolkata East Kolkata Township", 22512832, 88399411),
    E("ZWL006750", "ZWL006750", "Kolkata Bhowanipore", 22526436, 88343904),
    E("ZWL008828", "ZWL008828", "Kolkata Elgin", 22543063, 88356096),
    E("ZWL008426", "ZWL008426", "Kolkata Howrah", 22604678, 88342218),
    E("ZWL007323", "ZWL007323", "Kolkata New Alipore", 22506135, 88332770),
    E("ZWL006266", "ZWL006266", "Kolkata Barasat", 22735727, 88490498),
    E("ZWL008393", "ZWL008393", "Kolkata New Town (kolkata)", 22588818, 88457964),
    E("ZWL007966", "ZWL007966", "Kolkata Uttarpara", 22692420, 88342900),
    E("ZWL001039", "ZWL001039", "Kolkata Santoshpur", 22502107, 88388897),
    E("ZWL003882", "ZWL003882", "Kolkata Liluah", 22635342, 88343314),
    E("ZWL004925", "ZWL004925", "Kolkata Rajarhat", 22621505, 88446915),
    E("ZWL005244", "ZWL005244", "Kolkata Park Street area", 22552632, 88362888),
    E("ZWL003687", "ZWL003687", "Kolkata Baghajatin Colony", 22481243, 88374932),
    E("ZWL008120", "ZWL008120", "Kolkata Shrirampur", 22735733, 88344597),
    E("ZWL007514", "ZWL007514", "Kolkata Chhota Jagulia", 22759573, 88747215),
    E("ZWL003935", "ZWL003935", "Kolkata Dum Dum", 22656310, 88423694),
    E("ZWL002931", "ZWL002931", "Kolkata Kestopur", 22597524, 88431114),
    E("ZWL006521", "ZWL006521", "Kolkata Sodepur", 22701254, 88383329),
    E("ZWL005558", "ZWL005558", "Kolkata Nimta", 22670256, 88413503),
    E("ZWL005174", "ZWL005174", "Kolkata Shapoorji", 22567623, 88497427),
    E("ZWL002488", "ZWL002488", "Kolkata Barabazar Market", 22574220, 88366682),
    E("ZWL007934", "ZWL007934", "Kolkata Salt Lake 1", 22573829, 88412814),
    E("ZWL001584", "ZWL001584", "Kolkata Tangra", 22555059, 88388175),
    E("ZWL005429", "ZWL005429", "Kolkata Gariahat", 22514492, 88362000),
    E("ZWL005121", "ZWL005121", "Kolkata Santragachi", 22621044, 88283605),
    E("ZWL007830", "ZWL007830", "Kolkata Garia", 22469249, 88382261),
    E("ZWL008991", "ZWL008991", "Kolkata Chinsurah, Kolkata", 22933551, 88398649),
    E("ZWL009194", "ZWL009194", "Kolkata Kankurgachi", 22573467, 88391666),
    E("ZWL004722", "ZWL004722", "Kolkata Kasba", 22521693, 88389844),
    E("ZWL006536", "ZWL006536", "Mumbai Mira Road East", 19278130, 72874722),
    E("ZWL004934", "ZWL004934", "Mumbai Kandivali West", 19212156, 72828850),
    E("ZWL004821", "ZWL004821", "Mumbai Boisar, Mumbai", 19804797, 72745805),
    E("ZWL007249", "ZWL007249", "Mumbai Bhiwandi", 19251790, 73087318),
    E("ZWL001164", "ZWL001164", "Mumbai Panvel", 18998845, 73108933),
    E("ZWL009537", "ZWL009537", "Mumbai Kopar Khairane (Navi Mumbai)", 19113909, 73012598),
    E("ZWL007275", "ZWL007275", "Mumbai Vashi", 19067662, 73004987),
    E("ZWL002556", "ZWL002556", "Mumbai Titwala, Mumbai", 19292555, 73205899),
    E("ZWL006937", "ZWL006937", "Mumbai Kandivali East", 19200730, 72865461),
    E("ZWL008636", "ZWL008636", "Mumbai Nalasopara", 19424433, 72817134),
    E("ZWL003995", "ZWL003995", "Mumbai Lower Parel", 19005114, 72820143),
    E("ZWL006938", "ZWL006938", "Mumbai Goregaon East", 19163093, 72872277),
    E("ZWL008550", "ZWL008550", "Mumbai Santacruz East", 19076131, 72858715),
    E("ZWL004494", "ZWL004494", "Mumbai Ghatkopar East, Mumbai", 19080794, 72922280),
    E("ZWL003708", "ZWL003708", "Mumbai Palava", 19168067, 73074612),
    E("ZWL008711", "ZWL008711", "Mumbai Malad West", 19187022, 72827076),
    E("ZWL005991", "ZWL005991", "Mumbai Borivali East", 19241003, 72865970),
    E("ZWL002865", "ZWL002865", "Mumbai Kalyan,West,Mumbai", 19255127, 73128176),
    E("ZWL004749", "ZWL004749", "Mumbai Santacruz West", 19082610, 72835608),
    E("ZWL001274", "ZWL001274", "Mumbai Badlapur, Mumbai", 19174156, 73225767),
    E("ZWL007699", "ZWL007699", "Mumbai Ambernath", 19199776, 73181176),
    E("ZWL001764", "ZWL001764", "Mumbai Marine lines", 18952178, 72825198),
    E("ZWL002921", "ZWL002921", "Mumbai Mulund West", 19170765, 72942239),
    E("ZWL001410", "ZWL001410", "Mumbai Airoli", 19170339, 72995114),
    E("ZWL009757", "ZWL009757", "Mumbai Kharghar (Navi Mumbai)", 19069735, 73055883),
    E("ZWL002059", "ZWL002059", "Mumbai Ulhasnagar (Mumbai)", 19224136, 73169340),
    E("ZWL001058", "ZWL001058", "Mumbai Ghatkopar West, Mumbai", 19096740, 72904562),
    E("ZWL006995", "ZWL006995", "Mumbai Bandra West", 19068857, 72833000),
    E("ZWL004692", "ZWL004692", "Mumbai Dadar West", 19021199, 72835378),
    E("ZWL007667", "ZWL007667", "Mumbai Andheri West", 19137106, 72834828),
    E("ZWL009338", "ZWL009338", "Mumbai Vile Parle West", 19109560, 72832194),
    E("ZWL009167", "ZWL009167", "Mumbai Byculla", 18974283, 72833712),
    E("ZWL006032", "ZWL006032", "Mumbai Vasai", 19364358, 72836612),
    E("ZWL007397", "ZWL007397", "Mumbai Kalyan,East (Mumbai)", 19221503, 73138111),
    E("ZWL009360", "ZWL009360", "Mumbai Ulwe, Mumbai", 18974217, 73024914),
    E("ZWL002205", "ZWL002205", "Mumbai Fort", 18940613, 72834235),
    E("ZWL008975", "ZWL008975", "Mumbai Andheri East", 19108639, 72874437),
    E("ZWL009252", "ZWL009252", "Mumbai Chembur", 19049840, 72907847),
    E("ZWL002558", "ZWL002558", "Mumbai Palghar, Mumbai", 19700631, 72763031),
    E("ZWL002742", "ZWL002742", "Mumbai Mumbra, Mumbai", 19172636, 73023715),
    E("ZWL004971", "ZWL004971", "Mumbai Mulund East", 19154253, 72962493),
    E("ZWL008348", "ZWL008348", "Mumbai Shirdhon, Mumbai", 19195881, 73128886),
    E("ZWL001344", "ZWL001344", "Mumbai Virar", 19461784, 72799199),
    E("ZWL007606", "ZWL007606", "Mumbai Tardeo", 18961317, 72805513),
    E("ZWL005697", "ZWL005697", "Mumbai Bandra East", 19064138, 72852737),
    E("ZWL005442", "ZWL005442", "Mumbai Thane West", 19227309, 72972736),
    E("ZWL004189", "ZWL004189", "Mumbai Kurla West", 19079972, 72881537),
    E("ZWL005000", "ZWL005000", "Mumbai Goregaon West", 19162722, 72841610),
    E("ZWL002056", "ZWL002056", "Mumbai Hiranandani Estate", 19267411, 72967074),
    E("ZWL009826", "ZWL009826", "Mumbai Dombivli", 19210229, 73102272),
    E("ZWL007889", "ZWL007889", "Mumbai Bhandup West", 19151889, 72934553),
    E("ZWL008977", "ZWL008977", "Mumbai Kamothe", 19023359, 73091814),
    E("ZWL006622", "ZWL006622", "Mumbai Powai, Mumbai", 19115248, 72908952),
    E("ZWL002074", "ZWL002074", "Mumbai Naupada", 19188451, 72968001),
    E("ZWL008874", "ZWL008874", "Mumbai Bhayandar West", 19257869, 72804743),
    E("ZWL001334", "ZWL001334", "Mumbai Vileparle East", 19098430, 72864947),
    E("ZWL008378", "ZWL008378", "Mumbai Sion", 19045271, 72864631),
    E("ZWL007690", "ZWL007690", "Mumbai Nerul (Navi Mumbai)", 19031072, 73026647),
    E("ZWL007706", "ZWL007706", "Mumbai Dahisar West", 19255014, 72848267),
    E("ZWL005320", "ZWL005320", "Mumbai Colaba", 18919405, 72824376),
    E("ZWL006544", "ZWL006544", "Mumbai Mahim", 19039256, 72843913),
    E("ZWL002686", "ZWL002686", "Mumbai Wadala", 19017538, 72867138),
    E("ZWL001089", "ZWL001089", "Mumbai Borivali West", 19229714, 72839710),
    E("ZWL008360", "ZWL008360", "Mumbai Palava Lakeshore,Mumbai", 19165716, 73105733),
    E("ZWL003467", "ZWL003467", "Bengaluru Banashankari", 12936787, 77556079),
    E("ZWL004900", "ZWL004900", "Bengaluru Rajarajeshwari Nagar", 12918637, 77505467),
    E("ZWL005530", "ZWL005530", "Bengaluru JP Nagar", 12893441, 77560436),
    E("ZWL007643", "ZWL007643", "Bengaluru Mahadevapura", 12985322, 77687578),
    E("ZWL003159", "ZWL003159", "Bengaluru Jalahalli", 13031518, 77530986),
    E("ZWL002736", "ZWL002736", "Bengaluru RT Nagar", 13021267, 77601234),
    E("ZWL006369", "ZWL006369", "Bengaluru KR Puram", 13016987, 77706819),
    E("ZWL006274", "ZWL006274", "Bengaluru Electronic City", 12833101, 77673182),
    E("ZWL005375", "ZWL005375", "Bengaluru Vijayanagar", 12973219, 77519303),
    E("ZWL008600", "ZWL008600", "Bengaluru Marathahalli", 12955103, 77696507),
    E("ZWL002292", "ZWL002292", "Bengaluru Sarjapur road", 12900225, 77697451),
    E("ZWL004341", "ZWL004341", "Bengaluru Brookefields", 12967420, 77717851),
    E("ZWL007633", "ZWL007633", "Bengaluru Whitefield", 12975224, 77740422),
    E("ZWL009212", "ZWL009212", "Bengaluru Nagavara", 13048370, 77625534),
    E("ZWL007628", "ZWL007628", "Bengaluru New BEL Road", 13040495, 77569420),
    E("ZWL001156", "ZWL001156", "Bengaluru Koramangala", 12933756, 77625825),
    E("ZWL004924", "ZWL004924", "Bengaluru Bannerghatta Road, Bangalore", 12891397, 77608176),
    E("ZWL009229", "ZWL009229", "Bengaluru Aavalahalli", 13034488, 77712241),
    E("ZWL005576", "ZWL005576", "Bengaluru BIAL Airport Road", 13178996, 77630005),
    E("ZWL006658", "ZWL006658", "Bengaluru Yelahanka", 13111809, 77589276),
    E("ZWL002882", "ZWL002882", "Bengaluru Kadugodi", 13007511, 77763209),
    E("ZWL006631", "ZWL006631", "Bengaluru Kammanahalli", 13016050, 77661735),
    E("ZWL001196", "ZWL001196", "Bengaluru HSR Layout", 12908482, 77641773),
    E("ZWL006600", "ZWL006600", "Bengaluru BTM Layout", 12916931, 77608897),
    E("ZWL006854", "ZWL006854", "Bengaluru Varthur", 12936055, 77723415),
    E("ZWL001273", "ZWL001273", "Bengaluru Indiranagar", 12952636, 77653059),
    E("ZWL008105", "ZWL008105", "Bengaluru Jayanagar", 12944441, 77581003),
    E("ZWL005206", "ZWL005206", "Bengaluru Sahakaranagar", 13059918, 77591344),
    E("ZWL008797", "ZWL008797", "Bengaluru Devanahalli, Bangalore", 13258381, 77716183),
    E("ZWL001962", "ZWL001962", "Bengaluru MG Road", 12982689, 77608075),
    E("ZWL006844", "ZWL006844", "Bengaluru Rajajinagar", 12993217, 77557903),
    E("ZWL004164", "ZWL004164", "Bengaluru Bellandur", 12936225, 77665059),
    E("ZWL007698", "ZWL007698", "Pune NIGDI(Pune)", 18646511, 73775411),
    E("ZWL005773", "ZWL005773", "Pune Bibvewadi (Pune)", 18492332, 73861939),
    E("ZWL009577", "ZWL009577", "Pune Nanded-Nahre", 18453179, 73811077),
    E("ZWL002253", "ZWL002253", "Pune Bhosari (Pune)", 18643893, 73858653),
    E("ZWL003498", "ZWL003498", "Pune Camp Area", 18513693, 73877293),
    E("ZWL004311", "ZWL004311", "Pune Magarpatta", 18519482, 73934360),
    E("ZWL007801", "ZWL007801", "Pune Pimpri", 18625381, 73791194),
    E("ZWL008134", "ZWL008134", "Pune Yerwada", 18544659, 73869499),
    E("ZWL009625", "ZWL009625", "Pune Kalyani Nagar (Pune)", 18546538, 73906594),
    E("ZWL001627", "ZWL001627", "Pune Sus, Pune", 18564293, 73753879),
    E("ZWL006236", "ZWL006236", "Pune Bavdhan", 18514730, 73777922),
    E("ZWL006743", "ZWL006743", "Pune Viman nagar", 18564998, 73911551),
    E("ZWL004927", "ZWL004927", "Pune Aundh (Pune)", 18559795, 73807123),
    E("ZWL008370", "ZWL008370", "Pune Katraj (Pune)", 18451394, 73847642),
    E("ZWL004523", "ZWL004523", "Pune", 18600897, 73798441),
    E("ZWL001778", "ZWL001778", "Pune Dhanori", 18588936, 73907711),
    E("ZWL003386", "ZWL003386", "Pune Dehu Road", 18695874, 73740365),
    E("ZWL009157", "ZWL009157", "Pune Koregaon Park (Pune)", 18535326, 73883976),
    E("ZWL004962", "ZWL004962", "Pune Hinjewadi - Phase 2", 18585004, 73706319),
    E("ZWL005340", "ZWL005340", "Pune", 18599555, 73774652),
    E("ZWL009671", "ZWL009671", "Pune Manas Lake, Pune", 18491382, 73748953),
    E("ZWL008921", "ZWL008921", "Pune Sadashiv Peth", 18511357, 73856996),
    E("ZWL008940", "ZWL008940", "Pune Ghorpadi (Pune)", 18519767, 73897269),
    E("ZWL009874", "ZWL009874", "Pune Pashan (Pune)", 18527587, 73789459),
    E("ZWL006660", "ZWL006660", "Pune SP Infocity, Pune", 18487813, 73947187),
    E("ZWL003813", "ZWL003813", "Pune Manjri,Pune", 18509232, 73978364),
    E("ZWL007471", "ZWL007471", "Pune Khadki, Pune", 18563289, 73835023),
    E("ZWL009602", "ZWL009602", "Pune Kothrud (Pune)", 18504984, 73811587),
    E("ZWL002208", "ZWL002208", "Pune Sinhagad Road(Pune)", 18477264, 73826437),
    E("ZWL007895", "ZWL007895", "Pune New Sangvi, Pune", 18578959, 73823437),
    E("ZWL003099", "ZWL003099", "Pune Nimgaon, Pune", 18794589, 73910016),
    E("ZWL004575", "ZWL004575", "Pune Wagholi", 18579310, 73972122),
    E("ZWL004513", "ZWL004513", "Pune Keshavnagar, Pune", 18537273, 73944521),
    E("ZWL008983", "ZWL008983", "Pune Baner (Pune)", 18567954, 73783475),
    E("ZWL005520", "ZWL005520", "Pune Warje (Pune)", 18472703, 73788400),
    E("ZWL003300", "ZWL003300", "Pune Mundwa, Pune", 18535220, 73918549),
    E("ZWL001963", "ZWL001963", "Pune Chakan", 18752436, 73837484),
    E("ZWL002422", "ZWL002422", "Pune Shivaji Nagar (Pune)", 18526724, 73841658),
    E("ZWL005088", "ZWL005088", "Pune Yewalewadi, Pune", 18439804, 73902433),
    E("ZWL003014", "ZWL003014", "Pune Bopkhel, Pune", 18586306, 73859602),
    E("ZWL001472", "ZWL001472", "Pune Kharadi", 18552390, 73941901),
    E("ZWL004339", "ZWL004339", "Pune Talegaon Dabhade", 18738724, 73675701),
    E("ZWL003817", "ZWL003817", "Pune Hinjewadi - Phase 1", 18596583, 73733312),
    E("ZWL007925", "ZWL007925", "Pune Wanowrie-Kondhwa", 18477085, 73900966),
    E("ZWL003370", "ZWL003370", "Hyderabad Nagole", 17359969, 78565724),
    E("ZWL002088", "ZWL002088", "Hyderabad Attapur", 17380875, 78415717),
    E("ZWL006702", "ZWL006702", "Hyderabad Peerzadiguda", 17411644, 78578220),
    E("ZWL008776", "ZWL008776", "Hyderabad Begumpet", 17442659, 78482009),
    E("ZWL003918", "ZWL003918", "Hyderabad Suraram, Hyderabad", 17559752, 78437467),
    E("ZWL004079", "ZWL004079", "Hyderabad Banjara Hills", 17419238, 78438474),
    E("ZWL008309", "ZWL008309", "Hyderabad Alwal", 17508852, 78507402),
    E("ZWL002433", "ZWL002433", "Hyderabad Sainikpuri", 17489079, 78558910),
    E("ZWL007390", "ZWL007390", "Hyderabad Saroor Nagar", 17348264, 78530476),
    E("ZWL004767", "ZWL004767", "Hyderabad Karkhana", 17467142, 78496696),
    E("ZWL006016", "ZWL006016", "Hyderabad Kompally", 17533309, 78489965),
    E("ZWL003283", "ZWL003283", "Hyderabad Himayatnagar", 17402602, 78487229),
    E("ZWL007311", "ZWL007311", "Hyderabad Medchal Road", 17637191, 78480392),
    E("ZWL005919", "ZWL005919", "Hyderabad Kukatpally", 17495894, 78416259),
    E("ZWL001822", "ZWL001822", "Hyderabad Amberpet", 17407658, 78521703),
    E("ZWL008208", "ZWL008208", "Hyderabad Jeedimetla", 17495621, 78450281),
    E("ZWL001362", "ZWL001362", "Hyderabad Gachibowli", 17452114, 78351486),
    E("ZWL002162", "ZWL002162", "Hyderabad LB Nagar", 17345727, 78557062),
    E("ZWL009712", "ZWL009712", "Hyderabad Dilsukhnagar", 17370431, 78536184),
    E("ZWL005963", "ZWL005963", "Hyderabad Masab Tank", 17398217, 78462258),
    E("ZWL008297", "ZWL008297", "Hyderabad Bachupally", 17544887, 78359975),
    E("ZWL005424", "ZWL005424", "Hyderabad Manikonda", 17405930, 78388380),
    E("ZWL008585", "ZWL008585", "Hyderabad Shamshabad", 17257432, 78387920),
    E("ZWL008599", "ZWL008599", "Hyderabad Miyapur", 17500034, 78342670),
    E("ZWL006535", "ZWL006535", "Hyderabad Hayath Nagar, Hyderabad", 17326620, 78609288),
    E("ZWL006545", "ZWL006545", "Hyderabad Sangareddy, Hyderabad", 17598038, 78091346),
    E("ZWL009719", "ZWL009719", "Hyderabad JNTU", 17485166, 78389775),
    E("ZWL008890", "ZWL008890", "Hyderabad Serilingampally", 17485245, 78313916),
    E("ZWL007119", "ZWL007119", "Hyderabad Nizampet", 17509398, 78390364),
    E("ZWL004747", "ZWL004747", "Hyderabad Q City, Hyderabad", 17421788, 78318868),
    E("ZWL004802", "ZWL004802", "Hyderabad Madhapur", 17441185, 78398416),
    E("ZWL004665", "ZWL004665", "Hyderabad Narayanguda", 17392120, 78494443),
    E("ZWL005999", "ZWL005999", "Hyderabad ECIL", 17460327, 78567924),
    E("ZWL003360", "ZWL003360", "Hyderabad Toli Chowki", 17398121, 78421238),
    E("ZWL007187", "ZWL007187", "Hyderabad Kondapur", 17472485, 78367854),
    E("ZWL007344", "ZWL007344", "Hyderabad Charminar", 17375037, 78454499),
    E("ZWL008438", "ZWL008438", "Hyderabad Sivarampalli", 17345995, 78439283),
    E("ZWL005494", "ZWL005494", "Hyderabad Tarnaka", 17431829, 78550940),
    E("ZWL009519", "ZWL009519", "Hyderabad Moosapet", 17453292, 78421126),
    E("ZWL001687", "ZWL001687", "Hyderabad Patancheru, Hyderabad", 17542613, 78276529),
    E("ZWL005569", "ZWL005569", "Hyderabad Vanasthali Puram", 17318241, 78544989),
    E("ZWL003027", "ZWL003027", "Hyderabad Ameerpet", 17434737, 78446618),
    E("ZWL001337", "ZWL001337", "Hyderabad Uppal", 17403149, 78554106),
    E("ZWL001579", "ZWL001579", "Hyderabad Malakpet", 17371621, 78502672),
    E("ZWL006699", "ZWL006699", "Hyderabad Hafiz Baba Nagar", 17338717, 78497590),
    E("ZWL008512", "ZWL008512", "Hyderabad Mokila, Hyderabad", 17436228, 78190072),
    E("ZWL006789", "ZWL006789", "Chennai Potheri", 12799983, 80029865),
    E("ZWL004297", "ZWL004297", "Chennai Pallavaram", 12973055, 80151271),
    E("ZWL005190", "ZWL005190", "Chennai Nungambakkam", 13060471, 80255887),
    E("ZWL003967", "ZWL003967", "Chennai Anna Nagar, Chennai", 13086884, 80206602),
    E("ZWL008996", "ZWL008996", "Chennai Perambur", 13121741, 80225058),
    E("ZWL005857", "ZWL005857", "Chennai Mogappair, Chennai", 13080365, 80175724),
    E("ZWL006232", "ZWL006232", "Chennai Royapuram", 13136635, 80289535),
    E("ZWL008548", "ZWL008548", "Chennai Mugalivakkam", 13014886, 80152455),
    E("ZWL006053", "ZWL006053", "Chennai Porur", 13048069, 80158163),
    E("ZWL001398", "ZWL001398", "Chennai Redhills", 13191443, 80181225),
    E("ZWL001701", "ZWL001701", "Chennai Tambaram", 12934834, 80101824),
    E("ZWL008876", "ZWL008876", "Chennai Avadi", 13125301, 80069776),
    E("ZWL003387", "ZWL003387", "Chennai Kilpauk", 13080772, 80248018),
    E("ZWL007059", "ZWL007059", "Chennai Ashok Nagar (CHENNAI)", 13022680, 80200286),
    E("ZWL006520", "ZWL006520", "Chennai Adyar", 12993947, 80247174),
    E("ZWL001210", "ZWL001210", "Chennai Alwarpet", 13032366, 80257625),
    E("ZWL007171", "ZWL007171", "Chennai Selaiyur", 12916570, 80134348),
    E("ZWL006329", "ZWL006329", "Chennai Thandalam, Chennai", 12863785, 79947886),
    E("ZWL004233", "ZWL004233", "Chennai Sholinganallur", 12921608, 80233727),
    E("ZWL007209", "ZWL007209", "Chennai Ambattur", 13117566, 80146667),
    E("ZWL003452", "ZWL003452", "Chennai Medavakkam", 12931197, 80182327),
    E("ZWL007176", "ZWL007176", "Chennai Poonamallee", 13052763, 80090763),
    E("ZWL009897", "ZWL009897", "Chennai Minjur, Chennai", 13282298, 80266616),
    E("ZWL004882", "ZWL004882", "Chennai Urapakkam", 12878957, 80070307),
    E("ZWL006156", "ZWL006156", "Chennai Velachery", 12989300, 80199988),
    E("ZWL001141", "ZWL001141", "Chennai Navallur", 12841923, 80209025),
    E("ZWL004431", "ZWL004431", "Chennai Vadapalani", 13065160, 80207917),
    E("ZWL001516", "ZWL001516", "Chennai T Nagar", 13026256, 80228120),
    E("ZWL003425", "ZWL003425", "Lucknow Hazratganj", 26844819, 80940833),
    E("ZWL006490", "ZWL006490", "Lucknow Aminabad", 26856770, 80925103),
    E("ZWL009091", "ZWL009091", "Lucknow Chowk", 26873686, 80894502),
    E("ZWL003030", "ZWL003030", "Lucknow Telibagh, Lucknow", 26776664, 80936755),
    E("ZWL004978", "ZWL004978", "Lucknow Husainganj", 26836970, 80926110),
    E("ZWL009177", "ZWL009177", "Lucknow Jankipuram", 26926427, 80936884),
    E("ZWL004436", "ZWL004436", "Lucknow Arjunganj", 26794554, 80999112),
    E("ZWL005470", "ZWL005470", "Lucknow Chinhat, Lucknow", 26878323, 81038299),
    E("ZWL001500", "ZWL001500", "Lucknow Mahanagar", 26886387, 80960641),
    E("ZWL003371", "ZWL003371", "Lucknow Ashiyana", 26790510, 80913855),
    E("ZWL003635", "ZWL003635", "Lucknow Indira Nagar, Lucknow", 26883684, 80990290),
    E("ZWL003320", "ZWL003320", "Lucknow Vasant Kunj, Lucknow", 26877121, 80878447),
    E("ZWL009682", "ZWL009682", "Lucknow Rajajipuram", 26842055, 80873868),
    E("ZWL002273", "ZWL002273", "Lucknow Gomti Nagar", 26850582, 80999875),
    E("ZWL002331", "ZWL002331", "Lucknow Alambagh", 26810769, 80904864),
    E("ZWL007731", "ZWL007731", "Lucknow Aliganj, Lucknow", 26890082, 80942007),
    E("ZWL007011", "ZWL007011", "Lucknow Kalyanpur", 26907206, 80974143),
    E("ZWL003768", "ZWL003768", "Kochi Eroor", 9929826, 76332369),
    E("ZWL005555", "ZWL005555", "Kochi Kakkanad", 10014153, 76358626),
    E("ZWL002986", "ZWL002986", "Kochi Nedumbassery,Kochi", 10178008, 76386636),
    E("ZWL004273", "ZWL004273", "Kochi North Paravur, Kochi", 10162441, 76216317),
    E("ZWL005425", "ZWL005425", "Kochi Aluva, Kochi", 10106615, 76348843),
    E("ZWL004691", "ZWL004691", "Kochi Ambalamugal", 9980241, 76397987),
    E("ZWL001981", "ZWL001981", "Kochi Kalamassery", 10046034, 76308117),
    E("ZWL003786", "ZWL003786", "Kochi Kaloor", 10000143, 76298744),
    E("ZWL009487", "ZWL009487", "Kochi Perumbavoor,Kochi", 10117563, 76460320),
    E("ZWL007216", "ZWL007216", "Kochi Thiruvankulam", 9932264, 76385740),
    E("ZWL002327", "ZWL002327", "Kochi Vypin, Kochi", 10019731, 76245595),
    E("ZWL006873", "ZWL006873", "Kochi Ernakulam", 9969514, 76288288),
    E("ZWL004591", "ZWL004591", "Kochi Fort Kochi", 9931564, 76268065),
    E("ZWL005082", "ZWL005082", "Jaipur Mansarovar-2", 26844258, 75768570),
    E("ZWL003863", "ZWL003863", "Jaipur Tonk road 2", 26853567, 75794945),
    E("ZWL009286", "ZWL009286", "Jaipur Jagatpura", 26825942, 75851086),
    E("ZWL009458", "ZWL009458", "Jaipur Shyam Nagar", 26887617, 75756174),
    E("ZWL003704", "ZWL003704", "Jaipur C Scheme", 26916823, 75801190),
    E("ZWL003606", "ZWL003606", "Jaipur Lal Kothi", 26893689, 75797800),
    E("ZWL009569", "ZWL009569", "Jaipur Pink City", 26929588, 75823855),
    E("ZWL001750", "ZWL001750", "Jaipur Vaishali Nagar", 26909885, 75739394),
    E("ZWL002751", "ZWL002751", "Jaipur Malviya Nagar", 26854191, 75810798),
    E("ZWL005080", "ZWL005080", "Jaipur Sodala", 26904751, 75777608),
    E("ZWL008680", "ZWL008680", "Jaipur Vidhyadhar Nagar", 26963051, 75770166),
    E("ZWL008249", "ZWL008249", "Jaipur Raja Park", 26902497, 75826544),
    E("ZWL008915", "ZWL008915", "Jaipur Shastri Nagar", 26936514, 75797054),
    E("ZWL006372", "ZWL006372", "Jaipur Pratap Nagar", 26798396, 75815353),
    E("ZWL003133", "ZWL003133", "Ahmedabad Paldi", 22994998, 72557474),
    E("ZWL002302", "ZWL002302", "Ahmedabad Shahibag", 23058607, 72592212),
    E("ZWL003747", "ZWL003747", "Ahmedabad Navrangpura", 23038426, 72558241),
    E("ZWL002503", "ZWL002503", "Ahmedabad Chandkheda", 23117204, 72607123),
    E("ZWL005979", "ZWL005979", "Ahmedabad Science-City Sola", 23087361, 72510289),
    E("ZWL005987", "ZWL005987", "Ahmedabad Sector 16, Gandhinagar", 23216612, 72652543),
    E("ZWL001959", "ZWL001959", "Ahmedabad Vastrapur", 23042513, 72524312),
    E("ZWL007404", "ZWL007404", "Ahmedabad Prahlad Nagar", 22998074, 72515955),
    E("ZWL001898", "ZWL001898", "Ahmedabad Nikol", 23077071, 72637566),
    E("ZWL002250", "ZWL002250", "Ahmedabad Infocity, Gandhinagar", 23177762, 72636221),
    E("ZWL004415", "ZWL004415", "Ahmedabad Naranpura", 23072018, 72573161),
    E("ZWL006288", "ZWL006288", "Ahmedabad Bopal", 23011294, 72464041),
    E("ZWL009182", "ZWL009182", "Ahmedabad Maninagar", 22985307, 72610322),
    E("ZWL009990", "ZWL009990", "Ahmedabad Bodakdev", 23055398, 72491724),
    E("ZWL003455", "ZWL003455", "Ahmedabad Gota", 23131231, 72543606),
    E("ZWL007561", "ZWL007561", "Chandigarh Sector 15 (Chandigarh)", 30764466, 76774815),
    E("ZWL006687", "ZWL006687", "Chandigarh Sector 8 (Chandigarh)", 30749265, 76801584),
    E("ZWL001934", "ZWL001934", "Chandigarh Manimajra (Chandigarh)", 30722848, 76835395),
    E("ZWL003936", "ZWL003936", "Chandigarh Industrial Area Phase I (Chandigarh)", 30701381, 76808231),
    E("ZWL004716", "ZWL004716", "Chandigarh Sector 59 (Chandigarh)", 30725954, 76716657),
    E("ZWL002303", "ZWL002303", "Chandigarh Sector 20, Panchkula", 30667002, 76860170),
    E("ZWL009521", "ZWL009521", "9 nd Panchkula", 30694507, 76849604),
    E("ZWL006817", "ZWL006817", "Chandigarh Sector 28 (Chandigarh)", 30724245, 76808833),
    E("ZWL003496", "ZWL003496", "Chandigarh Phase 10 Mohali", 30692094, 76733846),
    E("ZWL009894", "ZWL009894", "Chandigarh Gillco, Chandigarh", 30736526, 76654293),
    E("ZWL004101", "ZWL004101", "Chandigarh Sector 46 (Chandigarh)", 30705920, 76762310),
    E("ZWL003262", "ZWL003262", "Chandigarh Sector 70 (Chandigarh)", 30709870, 76692050),
    E("ZWL009430", "ZWL009430", "Chandigarh VIP Road, Zirakpur", 30656048, 76823298),
    E("ZWL004196", "ZWL004196", "Chandigarh VR Mall", 30730066, 76684242),
    E("ZWL003093", "ZWL003093", "Chandigarh Sector 35 (Chandigarh)", 30727290, 76756632),
    E("ZWL009406", "ZWL009406", "Chandigarh Sector 22 (Chandigarh)", 30735307, 76774912),
    E("ZWL002150", "ZWL002150", "Goa Verna, Goa", 15380640, 73909304),
    E("ZWL008519", "ZWL008519", "Goa Mapusa, Goa", 15599556, 73791137),
    E("ZWL004452", "ZWL004452", "Goa Calangute, Goa", 15532704, 73762608),
    E("ZWL006556", "ZWL006556", "Goa Majorda, Goa", 15255895, 73937616),
    E("ZWL002137", "ZWL002137", "Goa Upper panaji, Goa", 15460913, 73835391),
    E("ZWL005093", "ZWL005093", "Goa Ponda, Goa", 15398953, 74002377),
    E("ZWL002142", "ZWL002142", "Goa Margao, Goa", 15231363, 73997689),
    E("ZWL004621", "ZWL004621", "Goa Vasco, Goa", 15387592, 73829979),
    E("ZWL006403", "ZWL006403", "Goa Morjim, Goa", 15653757, 73747022),
    E("ZWL005568", "ZWL005568", "Goa Porvorim, Goa", 15535007, 73827229),
    E("ZWL009021", "ZWL009021", "Ludhiana Sector 32, Ludhiana", 30895881, 75906050),
    E("ZWL006208", "ZWL006208", "Ludhiana Civil Lines, Ludhiana", 30916548, 75818266),
    E("ZWL006788", "ZWL006788", "Ludhiana Sarabha Nagar, Ludhiana", 30891869, 75834901),
    E("ZWL005256", "ZWL005256", "Ludhiana BRS Nagar, Ludhiana", 30897774, 75787544),
    E("ZWL001163", "ZWL001163", "Ludhiana Model Town, Ludhiana", 30881060, 75875309),
    E("ZWL003304", "ZWL003304", "Ludhiana Ganesh Nagar, Ludhiana", 30917540, 75879759),
    E("ZWL003119", "ZWL003119", "Ludhiana Dugri,Ludhiana", 30856247, 75843129),
    E("ZWL006981", "ZWL006981", "Guwahati Pathar Quarry, Guwahati", 26159879, 91827651),
    E("ZWL006537", "ZWL006537", "Guwahati Basistha-Lokhra, Guwahati", 26116888, 91777488),
    E("ZWL009407", "ZWL009407", "Guwahati North Guwahati, Guwahati", 26196471, 91684788),
    E("ZWL004763", "ZWL004763", "Guwahati Dharapur, Guwahati", 26134004, 91623895),
    E("ZWL007095", "ZWL007095", "Guwahati Lal Ganesh - Kahilipara, Guwahati", 26145102, 91752656),
    E("ZWL002105", "ZWL002105", "Guwahati Paltan-Bazar, Guwahati", 26183358, 91752480),
    E("ZWL003362", "ZWL003362", "Guwahati Azara, Guwahati", 26110966, 91602115),
    E("ZWL002491", "ZWL002491", "Guwahati Changsari, Guwahati", 26262376, 91694879),
    E("ZWL005319", "ZWL005319", "Guwahati Maligaon - Jalukbari, Guwahati", 26161285, 91689576),
    E("ZWL005708", "ZWL005708", "Guwahati Zoo Tiniali - Christian basti", 26177033, 91779799),
    E("ZWL001780", "ZWL001780", "Amritsar Himatpura, Amritsar", 31608999, 74863051),
    E("ZWL008281", "ZWL008281", "Amritsar Rasulpur, Amritsar", 31619590, 74915049),
    E("ZWL004590", "ZWL004590", "Amritsar Ranjit Avenue, Amritsar", 31666773, 74850200),
    E("ZWL002073", "ZWL002073", "Amritsar White Avenue, Amritsar", 31657377, 74889594),
    E("ZWL005826", "ZWL005826", "Amritsar Chheharta, Amritsar", 31633049, 74817702),
    E("ZWL007456", "ZWL007456", "Amritsar Hall Bazar, Amritsar", 31632158, 74866838),
    E("ZWL008755", "ZWL008755", "Bhopal Ashoka Garden, Bhopal", 23260793, 77421525),
    E("ZWL009428", "ZWL009428", "Bhopal Shahpura,Bhopal", 23176545, 77418255),
    E("ZWL006900", "ZWL006900", "Bhopal Airport Area, Bhopal", 23290449, 77337426),
    E("ZWL002615", "ZWL002615", "Bhopal TT Nagar, Bhopal", 23223600, 77392134),
    E("ZWL003463", "ZWL003463", "Bhopal BHEL, Bhopal", 23267602, 77474332),
    E("ZWL002872", "ZWL002872", "Bhopal MP Nagar,Bhopal", 23227641, 77447330),
    E("ZWL005836", "ZWL005836", "Bhopal Hoshangabad Road, Bhopal", 23168118, 77482657),
    E("ZWL003417", "ZWL003417", "s Mall, Bhopal", 23293081, 77396385),
    E("ZWL001466", "ZWL001466", "Visakhapatnam NAD, Vizag", 17749616, 83230677),
    E("ZWL003024", "ZWL003024", "Visakhapatnam Gajuwaka", 17681004, 83207459),
    E("ZWL004755", "ZWL004755", "Visakhapatnam Dwaraka Nagar", 17739116, 83324672),
    E("ZWL009959", "ZWL009959", "Visakhapatnam Madhurawada", 17789823, 83373031),
    E("ZWL007491", "ZWL007491", "Bhubaneswar Madhusudan Nagar, Bhubaneswar", 20278497, 85824922),
    E("ZWL003084", "ZWL003084", "Bhubaneswar Kalinga Nagar, Bhubneshwar", 20277934, 85773884),
    E("ZWL003270", "ZWL003270", "Bhubaneswar Nayapalli, Bhubneshwar", 20299879, 85813518),
    E("ZWL007379", "ZWL007379", "Bhubaneswar Sahid Nagar, Bhubaneshwar", 20289125, 85856680),
    E("ZWL001823", "ZWL001823", "Bhubaneswar Lakshmi Sagar, Bhubneshwar", 20266492, 85851166),
    E("ZWL004098", "ZWL004098", "Bhubaneswar Khandagiri, Bhubneshwar", 20246979, 85766384),
    E("ZWL008906", "ZWL008906", "Bhubaneswar Jagmohan Nagar, Bhubaneswar", 20257002, 85789371),
    E("ZWL002821", "ZWL002821", "Bhubaneswar Kharabela Nagar, Bhubaneswar", 20271584, 85840940),
    E("ZWL009572", "ZWL009572", "Bhubaneswar Chandrasekharpur, Bhubaneswar", 20317124, 85806992),
    E("ZWL005652", "ZWL005652", "Bhubaneswar Patia, Bhubneshwar", 20363954, 85814321),
    E("ZWL003661", "ZWL003661", "Coimbatore Gandhipuram, Coimbatore", 11019095, 76968472),
    E("ZWL005742", "ZWL005742", "Coimbatore Vadavalli", 11024820, 76900648),
    E("ZWL008653", "ZWL008653", "Coimbatore RS Puram, Coimbatore", 11000355, 76941985),
    E("ZWL002703", "ZWL002703", "Coimbatore Racecourse, Coimbatore", 10999272, 76975662),
    E("ZWL009668", "ZWL009668", "Coimbatore Saibaba Colony, Coimbatore", 11032946, 76944253),
    E("ZWL007527", "ZWL007527", "Coimbatore Peelamedu, Coimbatore", 11026179, 77005899),
    E("ZWL005468", "ZWL005468", "Coimbatore Podanur, Coimbatore", 10977206, 76981702),
    E("ZWL004408", "ZWL004408", "Coimbatore Kunniamuthur, Coimbatore", 10937589, 76933705),
    E("ZWL008265", "ZWL008265", "Coimbatore Ondipudur, Coimbatore", 10997670, 77042986),
    E("ZWL007600", "ZWL007600", "Coimbatore Koundampalayam", 11068353, 76937962),
    E("ZWL002147", "ZWL002147", "Coimbatore Saravanampatty", 11070812, 76998053),
    E("ZWL009595", "ZWL009595", "Coimbatore Ganapathypudur, Coimbatore", 11042698, 76984477),
    E("ZWL001279", "ZWL001279", "Coimbatore Sitra, and Singanallur, Coimbatore", 11042569, 77054996),
    E("ZWL006449", "ZWL006449", "Mangalore South Mangalore", 12879030, 74854593),
    E("ZWL009478", "ZWL009478", "Mangalore Thokkattu, Mangalore", 12820460, 74865765),
    E("ZWL002354", "ZWL002354", "Vadodara Waghodia", 22300216, 73229259),
    E("ZWL004097", "ZWL004097", "Vadodara Fatehgunj", 22315398, 73199769),
    E("ZWL009713", "ZWL009713", "Vadodara Nizampura", 22334731, 73176306),
    E("ZWL008938", "ZWL008938", "Vadodara Diwalipura", 22302691, 73156120),
    E("ZWL004439", "ZWL004439", "Vadodara Akota", 22298674, 73178672),
    E("ZWL002446", "ZWL002446", "Vadodara Manjalpur, Vadodara", 22257070, 73191150),
    E("ZWL008232", "ZWL008232", "Vadodara Shubhanpura", 22321614, 73160014),
    E("ZWL002475", "ZWL002475", "Vadodara Alkapuri", 22313140, 73172760),
    E("ZWL005549", "ZWL005549", "Nagpur Pratap Nagar", 21114916, 79051774),
    E("ZWL001438", "ZWL001438", "Nagpur Sadar", 21171681, 79072065),
    E("ZWL006432", "ZWL006432", "Nagpur Kharabi, Nagpur", 21144692, 79136306),
    E("ZWL009782", "ZWL009782", "Nagpur Hanuman Nagar", 21131152, 79100974),
    E("ZWL008282", "ZWL008282", "Nagpur Dharampeth", 21131547, 79056027),
    E("ZWL001041", "ZWL001041", "Nagpur Manish Nagar", 21091663, 79072458),
    E("ZWL007188", "ZWL007188", "Nagpur Ayodhya Nagar, Nagpur", 21103625, 79104888),
    E("ZWL003633", "ZWL003633", "Nagpur Gandhibagh", 21146868, 79103994),
    E("ZWL002458", "ZWL002458", "Mysore Central Mysore", 12326689, 76633539),
    E("ZWL005095", "ZWL005095", "Surat Udhna, Surat", 21166218, 72850231),
    E("ZWL002155", "ZWL002155", "Surat City Light, Surat", 21159272, 72791465),
    E("ZWL007951", "ZWL007951", "Surat Athwa", 21168804, 72803931),
    E("ZWL006000", "ZWL006000", "Surat Vesu, Surat", 21136777, 72762895),
    E("ZWL008198", "ZWL008198", "Surat Adajan, Surat", 21211151, 72793110),
    E("ZWL002771", "ZWL002771", "Surat Varaccha, Surat", 21210937, 72857374),
    E("ZWL005626", "ZWL005626", "Surat New Textile Market, Surat", 21199018, 72828239),
    E("ZWL005423", "ZWL005423", "Surat Katargam, Surat", 21231792, 72824230),
    E("ZWL009343", "ZWL009343", "Trivandrum Kazhakoottam, Thiruvananthapuram", 8575170, 76904888),
    E("ZWL007746", "ZWL007746", "Trivandrum Tvm Central", 8490977, 76969250),
    E("ZWL002223", "ZWL002223", "Trivandrum Nemom, Thiruvananthapuram", 8430376, 77027424),
    E("ZWL005308", "ZWL005308", "Vijayawada Governorpet, Vijayawada", 16520989, 80636340),
    E("ZWL004428", "ZWL004428", "Vijayawada Gunadala, Vijayawada", 16515748, 80690025),
    E("ZWL002106", "ZWL002106", "Vijayawada Gollapudi, Vijayawada", 16541337, 80585061),
    E("ZWL005858", "ZWL005858", "Vijayawada Auto Nagar, Vijayawada", 16487591, 80685560),
    E("ZWL003905", "ZWL003905", "Vijayawada Labbipet, Vijayawada", 16510686, 80648812),
    E("ZWL009921", "ZWL009921", "Jalandhar Shastri Nagar, Jalandhar", 31323693, 75583627),
    E("ZWL002344", "ZWL002344", "Jalandhar Gurdev Nagar, Jalandhar", 31347368, 75566556),
    E("ZWL001077", "ZWL001077", "Jalandhar Paragpur, Jalandhar", 31285004, 75648457),
    E("ZWL005408", "ZWL005408", "Jalandhar Model Town, Jalandhar", 31299818, 75582441),
    E("ZWL001624", "ZWL001624", "Jalandhar Basti Nau, Jalandhar", 31327456, 75549901),
    E("ZWL004713", "ZWL004713", "Jalandhar Rama Mandi, Jalandhar", 31314281, 75617635),
    E("ZWL007457", "ZWL007457", "Jammu Greater Kailash, Jammu", 32670712, 74901243),
    E("ZWL005892", "ZWL005892", "Jammu Barnai, Jammu", 32755253, 74825204),
    E("ZWL008753", "ZWL008753", "Jammu Gandhi Nagar, Jammu", 32704392, 74864830),
    E("ZWL008047", "ZWL008047", "Jammu OLD JAMMU, Jammu", 32727614, 74856395),
    E("ZWL002687", "ZWL002687", "Jammu Channi Himmat, Jammu", 32690740, 74886902),
    E("ZWL003195", "ZWL003195", "Raipur Shankar Nagar, Raipur", 21251392, 81663850),
    E("ZWL009896", "ZWL009896", "Raipur Purena, Raipur", 21235636, 81692460),
    E("ZWL001038", "ZWL001038", "Raipur Mowa, Raipur", 21272467, 81671100),
    E("ZWL008872", "ZWL008872", "Raipur Mahaveer Nagar", 21210730, 81640523),
    E("ZWL004310", "ZWL004310", "Raipur Samta Colony, Raipur", 21243164, 81621252),
    E("ZWL006651", "ZWL006651", "Raipur Civil Lines, Raipur", 21243402, 81650848),
    E("ZWL008695", "ZWL008695", "Raipur Devendra Nagar", 21252033, 81650070)
>>

Entries == DOMAIN Directory
Codes == {Directory[i].code : i \in Entries}

(***************************************************************************)
(* LocalityId and what the locality_id! macro generates (lib.rs 126-200).  *)
(***************************************************************************)
\* LocalityId(&'static str)
LocalityId(str) == [code |-> str]

\* Option<&str>, Option<(f64, f64)>, Option<LocalityId>
NoName == [some |-> FALSE, v |-> ""]
SomeName(x) == [some |-> TRUE, v |-> x]
NoLatLong == [some |-> FALSE, v |-> <<0, 0>>]
SomeLatLong(x) == [some |-> TRUE, v |-> x]
NoLocalityId == [some |-> FALSE, v |-> LocalityId("")]
SomeLocalityId(x) == [some |-> TRUE, v |-> x]

\* the answer of the last accessor called on the LocalityId held
NoOut == [op |-> "none", name |-> NoName, lat_long |-> NoLatLong, text |-> ""]

\* Result<LocalityId, InvalidLocalityId>
InvalidLocalityId == [ok |-> FALSE, id |-> LocalityId("")]
OkLocalityId(x) == [ok |-> TRUE, id |-> x]

\* for every literal of the table, the first arm that has it
FirstArm ==
    [id \in Codes |->
        CHOOSE i \in Entries :
            /\ Directory[i].code = id
            /\ \A j \in 1..(i - 1) : Directory[j].code # id]

\* match id { $str => .., }: the first arm whose literal is id, 0 for `_`
MatchArm(id) == IF id \in Codes THEN FirstArm[id] ELSE 0

\* pub const $konst: LocalityId = LocalityId($str), for the row i
Konst(i) == LocalityId(Directory[i].code)

\* area_name with the last row of the table left out of the match
area_name_SkipsLastArm(id) ==
    IF MatchArm(id) \in {0, Len(Directory)} THEN NoName
    ELSE SomeName(Directory[MatchArm(id)].name)

\* fn area_name(id: &str) -> Option<&str>
area_name(id) ==
    IF MatchArm(id) = 0 THEN NoName ELSE SomeName(Directory[MatchArm(id)].name)

\* area_lat_long giving the pair as (long, lat)
area_lat_long_Swapped(id) ==
    IF MatchArm(id) = 0 THEN NoLatLong
    ELSE SomeLatLong(<<Directory[MatchArm(id)].long, Directory[MatchArm(id)].lat>>)

\* fn area_lat_long(id: &str) -> Option<(f64, f64)>
area_lat_long(id) ==
    IF MatchArm(id) = 0 THEN NoLatLong
    ELSE SomeLatLong(<<Directory[MatchArm(id)].lat, Directory[MatchArm(id)].long>>)

\* from_str with the last row of the table left out of the match
from_str_SkipsLastArm(id) ==
    IF MatchArm(id) \in {0, Len(Directory)} THEN NoLocalityId
    ELSE SomeLocalityId(Konst(MatchArm(id)))

\* fn from_str(id: &str) -> Option<LocalityId>
from_str(id) ==
    IF MatchArm(id) = 0 THEN NoLocalityId ELSE SomeLocalityId(Konst(MatchArm(id)))

\* LocalityId::from_str wrapping every string that is not empty
LocalityId_from_str_Unchecked(id) ==
    IF id = "" THEN InvalidLocalityId ELSE OkLocalityId(LocalityId(id))

\* LocalityId::from_str(id: &str) -> Result<LocalityId, InvalidLocalityId>
LocalityId_from_str(id) ==
    IF id = "" THEN InvalidLocalityId
    ELSE IF from_str(id).some THEN OkLocalityId(from_str(id).v)
    ELSE InvalidLocalityId

\* LocalityId::locality_name(&self)
locality_name(self) == area_name(self.code)

\* LocalityId::locality_lat_long(&self)
locality_lat_long(self) == area_lat_long(self.code)

\* Display writing the name only
fmt_NameOnly(self) ==
    IF locality_name(self).some THEN locality_name(self).v
    ELSE "<Unknown LocalityId>"

\* impl fmt::Display for LocalityId: "{} {}" of the code and the name
fmt(self) ==
    self.code \o " " \o
        (IF locality_name(self).some THEN locality_name(self).v
         ELSE "<Unknown LocalityId>")

(***************************************************************************)
(* The requests of lat_long, locality_id and locality (lib.rs 97-123).  A  *)
(* URL is the text format! builds: the fixed text up to `?` and, for each  *)
(* `name={}` of the template, the name and what is formatted into it (an   *)
(* f64 by its Display, a string as it is).                                 *)
(***************************************************************************)
F64Text(x) == [k |-> "f64", n |-> x, s |-> ""]
StrText(x) == [k |-> "str", n |-> 0, s |-> x]
Param(name, text) == [name |-> name, value |-> text]

\* the argument of a call: lat and long of lat_long, id of locality_id,
\* lid of locality
Arg(lat, long, id, l) == [lat |-> lat, long |-> long, id |-> id, lid |-> l]
NoArg == Arg(0, 0, "", LocalityId(""))

\* WeatherUnion::from_key(key): the api_key of the new client
from_key(key) == key

\* .header("x-zomato-api-key", &self.api_key); self is the api key
Header(self) == [name |-> "x-zomato-api-key", value |-> self]

\* lat_long_request with the two arguments formatted into each other's place
lat_long_request_Swapped(self, lat, long) ==
    [method |-> "GET",
     url |-> [prefix |-> "https://www.weatherunion.com/gw/weather/external/v0/get_weather_data?",
              query |-> <<Param("latitude", F64Text(long)), Param("longitude", F64Text(lat))>>],
     header |-> Header(self)]

\* client.get(format!(..latitude={lat}&longitude={long})).header(..)
lat_long_request(self, lat, long) ==
    [method |-> "GET",
     url |-> [prefix |-> "https://www.weatherunion.com/gw/weather/external/v0/get_weather_data?",
              query |-> <<Param("latitude", F64Text(lat)), Param("longitude", F64Text(long))>>],
     header |-> Header(self)]

\* client.get(format!(..locality_id={id})).header(..)
locality_id_request(self, id) ==
    [method |-> "GET",
     url |-> [prefix |-> "https://www.weatherunion.com/gw/weather/external/v0/get_locality_weather_data?",
              query |-> <<Param("locality_id", StrText(id))>>],
     header |-> Header(self)]

\* locality_request formatting the LocalityId itself (its Display) in place
\* of id.0
locality_request_ByName(self, id) ==
    [method |-> "GET",
     url |-> [prefix |-> "https://www.weatherunion.com/gw/weather/external/v0/get_locality_weather_data?",
              query |-> <<Param("locality_id", StrText(fmt(id)))>>],
     header |-> Header(self)]

\* client.get(format!(..locality_id={}, id.0)).header(..)
locality_request(self, id) ==
    [method |-> "GET",
     url |-> [prefix |-> "https://www.weatherunion.com/gw/weather/external/v0/get_locality_weather_data?",
              query |-> <<Param("locality_id", StrText(id.code))>>],
     header |-> Header(self)]

NoRequest ==
    [method |-> "", url |-> [prefix |-> "", query |-> <<>>], header |-> Header("")]

\* the request of the operation op called with arg on the client of key self
RequestOf(self, op, arg) ==
    CASE op = "lat_long" -> lat_long_request(self, arg.lat, arg.long)
      [] op = "locality_id" -> locality_id_request(self, arg.id)
      [] op = "locality" -> locality_request(self, arg.lid)

(***************************************************************************)
(* The steps of one process_payload call.  A call record holds the status  *)
(* and body of its Response, whether the body has been read, and the       *)
(* result once there is one.                                               *)
(***************************************************************************)
\* Dispatch reading the body before it matches on the status
Dispatch_ReadsFirst(self, r) == [r EXCEPT !.pc = "reading"]

\* match payload.status(): every arm but the first is a result at once; the
\* 200 arm awaits payload.text()
Dispatch(self, r) ==
    IF r.status = OK
    THEN [r EXCEPT !.pc = "reading"]
    ELSE [r EXCEPT !.pc = "done",
                   !.result = process_payload(self, r.status, r.body)]

\* ReadText reading again, for ever, a body whose read fails
ReadText_RetriesUnreadable(self, r) ==
    IF r.body.readable
    THEN [r EXCEPT !.bodyRead = TRUE, !.pc = "done",
                   !.result = process_payload(self, r.status, r.body)]
    ELSE r

\* payload.text().await.unwrap() and the rest of the 200 arm
ReadText(self, r) ==
    [r EXCEPT !.bodyRead = TRUE,
              !.pc = IF r.body.readable THEN "done" ELSE "panicked",
              !.result = process_payload(self, r.status, r.body)]

(***************************************************************************)
(* SpecInterp: process_payload applied once to every input.                *)
(***************************************************************************)
\* a call slot no call is using: nothing sent, nothing interpreted
NoCall ==
    [pc |-> "idle", client |-> "w1", status |-> 0, body |-> NotJson,
     bodyRead |-> FALSE, result |-> Pending,
     op |-> "none", arg |-> NoArg, request |-> NoRequest,
     gets |-> 0, interps |-> 0, returned |-> Pending]

\* no LocalityId held, nothing asked
NoLid == [src |-> "none", arg |-> "", res |-> InvalidLocalityId, out |-> NoOut]

InitInterp ==
    /\ api_key \in {[w \in Clients |-> k] : k \in Keys}
    /\ calls = [c \in CallIds |-> NoCall]
    /\ lid = NoLid
    /\ interp \in
        {[pc |-> "start", client |-> w, status |-> s, body |-> b,
          bodyRead |-> FALSE, result |-> Pending] :
            w \in {"w1"}, s \in Statuses, b \in Bodies}

InterpDispatch ==
    /\ interp.pc = "start"
    /\ interp' = Dispatch(api_key[interp.client], interp)
    /\ UNCHANGED <<api_key, calls, lid>>

InterpReadText ==
    /\ interp.pc = "reading"
    /\ interp' = ReadText(api_key[interp.client], interp)
    /\ UNCHANGED <<api_key, calls, lid>>

NextInterp == InterpDispatch \/ InterpReadText

SpecInterp == InitInterp /\ [][NextInterp]_vars

(***************************************************************************)
(* The calls of a client (lat_long, locality_id and locality, lib.rs       *)
(* 97-123, all of one shape): a GET is sent, the transport answers with a  *)
(* response or fails, process_payload interprets the response and its      *)
(* result is returned.                                                     *)
(***************************************************************************)
\* Send looking the code of locality_id up in the table first and sending
\* nothing for a code that is not there
Send_ChecksDirectory(self, w, op, arg) ==
    IF op = "locality_id" /\ MatchArm(arg.id) = 0
    THEN [NoCall EXCEPT !.pc = "done", !.client = w, !.op = op, !.arg = arg,
                        !.result = InvalidResponse, !.returned = InvalidResponse]
    ELSE [NoCall EXCEPT !.pc = "sent", !.client = w, !.op = op, !.arg = arg,
                        !.request = RequestOf(self, op, arg),
                        !.gets = NoCall.gets + 1]

\* Send refusing a latitude outside [-90, 90] and a longitude outside
\* [-180, 180] without a request
Send_ChecksRange(self, w, op, arg) ==
    IF /\ op = "lat_long"
       /\ \/ arg.lat < -90000000 \/ arg.lat > 90000000
          \/ arg.long < -180000000 \/ arg.long > 180000000
    THEN [NoCall EXCEPT !.pc = "done", !.client = w, !.op = op, !.arg = arg,
                        !.result = InvalidResponse, !.returned = InvalidResponse]
    ELSE [NoCall EXCEPT !.pc = "sent", !.client = w, !.op = op, !.arg = arg,
                        !.request = RequestOf(self, op, arg),
                        !.gets = NoCall.gets + 1]

\* client.get(..).header(..).send(): one GET goes out; the call awaits it
Send(self, w, op, arg) ==
    [NoCall EXCEPT !.pc = "sent", !.client = w, !.op = op, !.arg = arg,
                   !.request = RequestOf(self, op, arg),
                   !.gets = NoCall.gets + 1]

\* SendError sending the GET again, up to three times, before it gives up
SendError_Retries(r) ==
    IF r.gets < 3 THEN [r EXCEPT !.gets = @ + 1]
    ELSE [r EXCEPT !.pc = "panicked", !.result = Panic, !.returned = Panic]

\* SendError turning the transport failure into a WeatherResponseError
SendError_AsInvalidResponse(r) ==
    [r EXCEPT !.pc = "done", !.result = InvalidResponse,
              !.returned = InvalidResponse]

\* send().await is Err: unwrap() panics, the panic is what the caller gets
SendError(r) ==
    [r EXCEPT !.pc = "panicked", !.result = Panic, !.returned = Panic]

\* send().await is Ok(response): self.process_payload(response) is called
Received(r, s, b) ==
    [r EXCEPT !.pc = "start", !.status = s, !.body = b, !.interps = @ + 1]

\* ReturnResult recovering from an invalid body with an all-zero record
ReturnResult_Recovers(r) ==
    IF r.pc = "done"
    THEN [r EXCEPT !.returned =
             IF r.result = InvalidResponse THEN OkData(NoData) ELSE r.result]
    ELSE IF r.pc = "panicked" THEN [r EXCEPT !.returned = Panic]
    ELSE r

\* return self.process_payload(response).await: the caller gets what
\* process_payload returned, or its panic
ReturnResult(r) ==
    IF r.pc = "done" THEN [r EXCEPT !.returned = r.result]
    ELSE IF r.pc = "panicked" THEN [r EXCEPT !.returned = Panic]
    ELSE r

\* the calls the model makes: operation and argument
CallOf(op, arg) == [op |-> op, arg |-> arg]
LatLongCalls ==
    {CallOf("lat_long", Arg(a[1], a[2], "", LocalityId(""))) :
        a \in {<<12936787, 77556079>>, <<91000000, -181000000>>}}
LocalityIdCalls ==
    {CallOf("locality_id", Arg(0, 0, id, LocalityId(""))) :
        id \in {"ZWL003467", "ZWL008436", ""}}
LocalityCalls ==
    {CallOf("locality", Arg(0, 0, "", Konst(i))) :
        i \in {1, MatchArm("ZWL003467")}}

\* the bodies the transport answers with
ClientBodies ==
    {Unreadable, NotJson,
     ObjBody(JStr(""), JObj(AllSix), JInt(7)),
     ObjBody(JStr(""), JObj(<<>>), JInt(7)),
     ObjBody(JStr("station offline"), JObj(AllSix), JInt(7)),
     ObjBody(JStr("station offline"), JAbsent, JInt(7)),
     ArrBody(JStr(""), JObj(AllSix), JInt(7))}

\* Call using up the key of the client it is called on
Call_UsesUpKey(c, w, op, arg) ==
    /\ calls[c].pc = "idle"
    /\ calls' = [calls EXCEPT ![c] = Send(api_key[w], w, op, arg)]
    /\ api_key' = [api_key EXCEPT ![w] = ""]
    /\ UNCHANGED <<interp, lid>>

\* client w starts a call: the GET is sent and awaited
Call(c, w, op, arg) ==
    /\ calls[c].pc = "idle"
    /\ calls' = [calls EXCEPT ![c] = Send(api_key[w], w, op, arg)]
    /\ UNCHANGED <<api_key, interp, lid>>

\* the transport fails
SendFails(c) ==
    /\ calls[c].pc = "sent"
    /\ calls' = [calls EXCEPT ![c] = SendError(calls[c])]
    /\ UNCHANGED <<api_key, interp, lid>>

\* the transport delivers a response
Respond(c, s, b) ==
    /\ calls[c].pc = "sent"
    /\ calls' = [calls EXCEPT ![c] = Received(calls[c], s, b)]
    /\ UNCHANGED <<api_key, interp, lid>>

\* Process interpreting the response another running call has received, as
\* if the response were kept in a place the calls share
Process_SharedResponse(c) ==
    /\ calls[c].pc = "start"
    /\ LET d == CHOOSE x \in CallIds : x # c
           seen == IF calls[d].status \in Statuses THEN calls[d] ELSE calls[c]
           r == ReturnResult(Dispatch(api_key[calls[c].client],
                                      [calls[c] EXCEPT !.status = seen.status,
                                                       !.body = seen.body]))
       IN calls' = [calls EXCEPT ![c] = [r EXCEPT !.status = calls[c].status,
                                                  !.body = calls[c].body]]
    /\ UNCHANGED <<api_key, interp, lid>>

\* self.process_payload(response): the match on the status
Process(c) ==
    /\ calls[c].pc = "start"
    /\ calls' = [calls EXCEPT ![c] =
                    ReturnResult(Dispatch(api_key[calls[c].client], calls[c]))]
    /\ UNCHANGED <<api_key, interp, lid>>

\* payload.text().await and the rest of the 200 arm
Read(c) ==
    /\ calls[c].pc = "reading"
    /\ calls' = [calls EXCEPT ![c] =
                    ReturnResult(ReadText(api_key[calls[c].client], calls[c]))]
    /\ UNCHANGED <<api_key, interp, lid>>

\* the caller has its result (or its panic): the slot is free for a new call
Return(c) ==
    /\ calls[c].pc \in {"done", "panicked"}
    /\ calls' = [calls EXCEPT ![c] = NoCall]
    /\ UNCHANGED <<api_key, interp, lid>>

(***************************************************************************)
(* Spec: two clients, calls running side by side.                          *)
(***************************************************************************)
\* what the calls of Spec are and what they are answered with
ConcurrentCalls ==
    {CallOf("lat_long", Arg(12936787, 77556079, "", LocalityId(""))),
     CallOf("locality_id", Arg(0, 0, "ZWL003467", LocalityId("")))}
ConcurrentStatuses == {200, 201, 403, 500}
ConcurrentBodies ==
    {Unreadable, NotJson,
     ObjBody(JStr(""), JObj(AllSix), JInt(7)),
     ObjBody(JStr("station offline"), JObj(AllSix), JInt(7)),
     ObjBody(JStr("station offline"), JAbsent, JInt(7))}

\* WeatherUnion::from_key for every client
Init ==
    /\ api_key \in {[w \in Clients |-> from_key(k[w])] : k \in [Clients -> Keys]}
    /\ calls = [c \in CallIds |-> NoCall]
    /\ interp = NoCall
    /\ lid = NoLid

Next ==
    \E c \in CallIds :
        \/ \E w \in Clients, k \in ConcurrentCalls : Call(c, w, k.op, k.arg)
        \/ SendFails(c)
        \/ \E s \in ConcurrentStatuses, b \in ConcurrentBodies : Respond(c, s, b)
        \/ Process(c)
        \/ Read(c)
        \/ Return(c)

Spec == Init /\ [][Next]_vars

\* SpecLive: the calls of Spec with the caller awaiting each of them, over
\* fewer statuses and bodies; a future that can go on
\* (the response is there, or the body has been delivered or has failed) is
\* polled again and runs to its next await or to its end
LiveStatuses == {200, 403}
LiveBodies ==
    {Unreadable,
     ObjBody(JStr(""), JObj(AllSix), JInt(7)),
     ObjBody(JStr("station offline"), JObj(AllSix), JInt(7))}

NextLive ==
    \E c \in CallIds :
        \/ \E w \in Clients, k \in ConcurrentCalls : Call(c, w, k.op, k.arg)
        \/ SendFails(c)
        \/ \E s \in LiveStatuses, b \in LiveBodies : Respond(c, s, b)
        \/ Process(c)
        \/ Read(c)
        \/ Return(c)

SpecLive ==
    /\ Init
    /\ [][NextLive]_vars
    /\ \A c \in CallIds : WF_vars(Process(c)) /\ WF_vars(Read(c))

(***************************************************************************)
(* The operations on LocalityId a caller has: from_str, the named          *)
(* constants, the two accessors and Display.  lid.res is the LocalityId    *)
(* the caller holds (or the Err of its last from_str), lid.out the answer  *)
(* of the last accessor.  The caller holds one value at a time.           *)
(***************************************************************************)
\* LocalityId::from_str(s)
FromStr(s) ==
    /\ lid.src = "none"
    /\ lid' = [src |-> "from_str", arg |-> s, res |-> LocalityId_from_str(s),
               out |-> NoOut]
    /\ UNCHANGED <<api_key, calls, interp>>

\* LocalityId::$konst of row i
UseKonst(i) ==
    /\ lid.src = "none"
    /\ lid' = [src |-> "const", arg |-> Directory[i].konst,
               res |-> OkLocalityId(Konst(i)), out |-> NoOut]
    /\ UNCHANGED <<api_key, calls, interp>>

\* id.locality_name()
LocalityName ==
    /\ lid.res.ok
    /\ lid' = [lid EXCEPT !.out =
                  [NoOut EXCEPT !.op = "locality_name",
                                !.name = locality_name(lid.res.id)]]
    /\ UNCHANGED <<api_key, calls, interp>>

\* id.locality_lat_long()
LocalityLatLong ==
    /\ lid.res.ok
    /\ lid' = [lid EXCEPT !.out =
                  [NoOut EXCEPT !.op = "locality_lat_long",
                                !.lat_long = locality_lat_long(lid.res.id)]]
    /\ UNCHANGED <<api_key, calls, interp>>

\* format!("{}", id)
Format ==
    /\ lid.res.ok
    /\ lid' = [lid EXCEPT !.out =
                  [NoOut EXCEPT !.op = "fmt", !.text = fmt(lid.res.id)]]
    /\ UNCHANGED <<api_key, calls, interp>>

\* the caller lets go of what it holds
Forget ==
    /\ lid.src # "none"
    /\ lid' = NoLid
    /\ UNCHANGED <<api_key, calls, interp>>

(***************************************************************************)
(* SpecDir: LocalityId over every row of the table and every input of      *)
(* DirInputs.                                                              *)
(***************************************************************************)
\* the strings from_str is given: every code of the table, the empty
\* string, and strings that are no code
NonCodes == {"", "NOT_A_CODE", "ZWL008436", "zwl003467", "ZWL003467 ", "ZWL"}
DirInputs == Codes \cup NonCodes

InitDir ==
    /\ api_key = [w \in Clients |-> "key-a"]
    /\ calls = [c \in CallIds |-> NoCall]
    /\ interp = NoCall
    /\ lid = NoLid

NextDir ==
    \/ \E s \in DirInputs : FromStr(s)
    \/ \E i \in Entries : UseKonst(i)
    \/ LocalityName
    \/ LocalityLatLong
    \/ Format
    \/ Forget

SpecDir == InitDir /\ [][NextDir]_vars

(***************************************************************************)
(* SpecLib: one caller using the whole library, one call at a time, with   *)
(* every operation, argument, status and body of the sets below.           *)
(***************************************************************************)
LibCalls == LatLongCalls \cup LocalityIdCalls \cup LocalityCalls
LibInputs == {"", "NOT_A_CODE", "ZWL003467"}

NextLib ==
    \/ \E w \in Clients, k \in LibCalls : Call("c1", w, k.op, k.arg)
    \/ /\ lid.res.ok
       /\ \E w \in Clients : Call("c1", w, "locality", Arg(0, 0, "", lid.res.id))
    \/ SendFails("c1")
    \/ \E s \in Statuses, b \in ClientBodies : Respond("c1", s, b)
    \/ Process("c1")
    \/ Read("c1")
    \/ Return("c1")
    \/ \E s \in LibInputs : FromStr(s)
    \/ UseKonst(1)
    \/ LocalityName
    \/ LocalityLatLong
    \/ Format
    \/ Forget

SpecLib == Init /\ [][NextLib]_vars

(***************************************************************************)
(* Properties of process_payload, checked under SpecInterp.                *)
(***************************************************************************)
\* the interpretation has returned a Result for a 200 response
Done200 == interp.pc = "done" /\ interp.status = OK

\* a number literal of either kind
IsNumber(j) == j.t \in {"int", "float"}

\* the response body of the wire contract: a JSON object with a string
\* message, an integer device_type that fits the record's device field, and
\* an object locality_weather_data whose values are numbers or null
WireContractBody(b) ==
    /\ b.readable
    /\ b.form = "object"
    /\ b.message.t = "str"
    /\ b.device_type.t = "int"
    /\ b.device_type.v \in 0..255
    /\ b.locality_weather_data.t = "obj"
    /\ \A k \in DOMAIN b.locality_weather_data.o :
          b.locality_weather_data.o[k].t = "null"
          \/ IsNumber(b.locality_weather_data.o[k])

\* all six measurement keys are present with numbers
AllSixNumeric(b) ==
    /\ b.locality_weather_data.t = "obj"
    /\ \A k \in MeasurementKeys :
          /\ k \in DOMAIN b.locality_weather_data.o
          /\ IsNumber(b.locality_weather_data.o[k])

\* C1: a 200 response whose body parses and whose message is not empty
\* is Err(TemporarilyUnavailable(m)), m the received message, never Ok --
\* also when all six measurements and device_type are there and numeric.
C1_MessageIsTemporarilyUnavailable ==
    (/\ Done200
     /\ ParseBodyValues(interp.body).ok
     /\ interp.body.message.s # "")
    => /\ interp.result = TemporarilyUnavailable(interp.body.message.s)
       /\ interp.result.tag # "Ok"

C1_Witness ==
    /\ Done200
    /\ interp.body.message = JStr("station offline")
    /\ WireContractBody(interp.body)
    /\ AllSixNumeric(interp.body)
    /\ interp.result = TemporarilyUnavailable("station offline")

\* C2 as claimed: a 200 response with a non-empty message is
\* Err(TemporarilyUnavailable(message)) whether or not
\* locality_weather_data is well-formed (missing, not an object, holding
\* values that are not numbers).
C2_AsClaimed ==
    (/\ Done200
     /\ interp.body.form = "object"
     /\ interp.body.message.t = "str"
     /\ interp.body.message.s # ""
     /\ interp.body.device_type.t = "int"
     /\ interp.body.device_type.v \in 0..255)
    => interp.result = TemporarilyUnavailable(interp.body.message.s)

\* C2 amended: a 200 response with a non-empty message (and a device_type
\* in 0..255) is Err(TemporarilyUnavailable(message)) whatever keys, nulls
\* and numbers locality_weather_data holds, and is Err(InvalidResponse)
\* when locality_weather_data is missing, is not an object, or holds a
\* value that is neither a number nor null.
C2_MessageNeedsParsedData ==
    (/\ Done200
     /\ interp.body.form = "object"
     /\ interp.body.message.t = "str"
     /\ interp.body.message.s # ""
     /\ interp.body.device_type.t = "int"
     /\ interp.body.device_type.v \in 0..255)
    => IF /\ interp.body.locality_weather_data.t = "obj"
          /\ \A k \in DOMAIN interp.body.locality_weather_data.o :
                interp.body.locality_weather_data.o[k].t = "null"
                \/ IsNumber(interp.body.locality_weather_data.o[k])
       THEN interp.result = TemporarilyUnavailable(interp.body.message.s)
       ELSE interp.result = InvalidResponse

C2_Witness ==
    /\ Done200
    /\ interp.body = ObjBody(JStr("station offline"), JAbsent, JInt(7))
    /\ interp.result = InvalidResponse

\* C3: 500 is Err(ErrorRetrievingData), 400 Err(NotSupported), 429
\* Err(ApiKeyLimitExhausted), 403 Err(CouldNotAuthenticate), for every body.
C3_KnownStatusTable ==
    interp.status \in {INTERNAL_SERVER_ERROR, BAD_REQUEST, TOO_MANY_REQUESTS, FORBIDDEN}
    => /\ interp.pc \in {"start", "done"}
       /\ interp.pc = "done" =>
             /\ interp.status = 500 => interp.result = ErrorRetrievingData
             /\ interp.status = 400 => interp.result = NotSupported
             /\ interp.status = 429 => interp.result = ApiKeyLimitExhausted
             /\ interp.status = 403 => interp.result = CouldNotAuthenticate

C3_Witness ==
    /\ interp.pc = "done"
    /\ interp.status = 403
    /\ WireContractBody(interp.body)
    /\ interp.body.message.s = ""
    /\ interp.result = CouldNotAuthenticate

\* C4: every status other than 200, 500, 400, 429 and 403 (201, 204 and
\* 401 among them) is Err(UnknownError(s)), s the received status: never Ok,
\* never another variant.
C4_OtherStatusIsUnknownError ==
    interp.status \notin {200, 500, 400, 429, 403}
    => /\ interp.pc \in {"start", "done"}
       /\ interp.pc = "done" =>
             /\ interp.result.tag = "UnknownError"
             /\ interp.result.status = interp.status
             /\ interp.result = UnknownError(interp.status)

C4_Witness ==
    /\ interp.pc = "done"
    /\ interp.status = 204
    /\ WireContractBody(interp.body)
    /\ interp.body.message.s = ""
    /\ interp.result = UnknownError(204)

\* C5: a 200 response of the wire contract with an empty message and all
\* six measurement keys present with numbers is Ok(record): each of the six
\* fields is the value received under the key of its own name, and device is
\* the received device_type.
C5_RecordEchoesMeasurements ==
    (/\ Done200
     /\ WireContractBody(interp.body)
     /\ interp.body.message.s = ""
     /\ AllSixNumeric(interp.body))
    => /\ interp.result.tag = "Ok"
       /\ \A k \in MeasurementKeys :
             interp.result.data[k] = interp.body.locality_weather_data.o[k].v
       /\ interp.result.data.device = interp.body.device_type.v

C5_Witness ==
    /\ Done200
    /\ WireContractBody(interp.body)
    /\ interp.body.message.s = ""
    /\ AllSixNumeric(interp.body)
    /\ interp.body.locality_weather_data.o["temperature"].v
         # interp.body.locality_weather_data.o["humidity"].v
    /\ interp.body.device_type.v = 255
    /\ interp.result.tag = "Ok"

\* the body b with the locality_weather_data object o
WithData(b, o) == [b EXCEPT !.locality_weather_data = JObj(o)]

\* the object o without the keys that hold null
DropNulls(o) == [k \in {x \in DOMAIN o : o[x].t # "null"} |-> o[k]]

\* the object o with null under every measurement key it lacks
FillNulls(o) ==
    [k \in DOMAIN o \cup MeasurementKeys |-> IF k \in DOMAIN o THEN o[k] ELSE JNull]

\* C6: for a 200 response of the wire contract with an empty message, and
\* whatever measurement keys are absent or null: the result is Ok, each such
\* field is 0.0, the keys that hold numbers keep them, and the record is the
\* one of the body with the null keys left out and of the body with null
\* under the absent keys.
C6_AbsentOrNullIsZero ==
    (/\ Done200
     /\ WireContractBody(interp.body)
     /\ interp.body.message.s = "")
    => LET o == interp.body.locality_weather_data.o
           self == api_key[interp.client]
       IN /\ interp.result.tag = "Ok"
          /\ \A k \in MeasurementKeys :
                interp.result.data[k] =
                    IF k \in DOMAIN o /\ IsNumber(o[k]) THEN o[k].v ELSE 0
          /\ interp.result =
                process_payload(self, OK, WithData(interp.body, DropNulls(o)))
          /\ interp.result =
                process_payload(self, OK, WithData(interp.body, FillNulls(o)))

C6_Witness ==
    /\ Done200
    /\ WireContractBody(interp.body)
    /\ interp.body.message.s = ""
    /\ "temperature" \notin DOMAIN interp.body.locality_weather_data.o
    /\ "humidity" \in DOMAIN interp.body.locality_weather_data.o
    /\ interp.body.locality_weather_data.o["humidity"] = JNull
    /\ "wind_speed" \in DOMAIN interp.body.locality_weather_data.o
    /\ interp.body.locality_weather_data.o["wind_speed"] = JInt(2)
    /\ interp.result.tag = "Ok"
    /\ interp.result.data.temperature = 0
    /\ interp.result.data.humidity = 0
    /\ interp.result.data.wind_speed = 2

\* C7: a 200 response whose body is not valid JSON, or is valid JSON
\* without one of the top-level keys message, locality_weather_data and
\* device_type, is Err(InvalidResponse).
C7_MissingKeyIsInvalidResponse ==
    (/\ Done200
     /\ \/ interp.body.form \in {"notjson", "scalar", "array"}
        \/ interp.body.message = JAbsent
        \/ interp.body.locality_weather_data = JAbsent
        \/ interp.body.device_type = JAbsent)
    => interp.result = InvalidResponse

\* C8: process_payload never panics: for every status and body, a 200
\* response whose body cannot be read included, it returns a Result, and
\* whatever goes wrong obtaining or parsing a 200 body is
\* Err(InvalidResponse).
C8_NeverPanics ==
    /\ interp.pc # "panicked"
    /\ interp.result # Panic
    /\ (interp.status = OK /\ interp.bodyRead /\ ~interp.body.readable)
          => interp.result = InvalidResponse

(***************************************************************************)
(* Properties of the calls, checked under Spec.                            *)
(***************************************************************************)
\* call c has a response whose status is not 200
Answered(c) == calls[c].pc \in {"start", "reading", "done", "panicked"} /\ calls[c].status \in Statuses

\* C9: for every status other than 200 the body is never read, and the
\* result is the same for any two bodies: it depends on the status alone.
C9_OnlyOkReadsBody ==
    /\ \A c \in CallIds :
          (Answered(c) /\ calls[c].status # OK)
          => /\ ~calls[c].bodyRead
             /\ calls[c].pc \in {"start", "done"}
    /\ \A c, d \in CallIds :
          (/\ calls[c].pc = "done"
           /\ calls[d].pc = "done"
           /\ calls[c].status # OK
           /\ calls[c].status = calls[d].status)
          => calls[c].result = calls[d].result

C9_Witness ==
    /\ calls["c1"].pc = "done"
    /\ calls["c2"].pc = "done"
    /\ calls["c1"].status = 500
    /\ calls["c2"].status = 500
    /\ calls["c1"].body = Unreadable
    /\ calls["c2"].body = ObjBody(JStr(""), JObj(AllSix), JInt(7))
    /\ ~calls["c1"].bodyRead
    /\ ~calls["c2"].bodyRead
    /\ calls["c1"].result = ErrorRetrievingData
    /\ calls["c2"].result = ErrorRetrievingData

\* C10: two interpretations of the same (status, body), whatever calls
\* came before or run beside them and whatever the api keys, give equal
\* results: same variant, same record, same message, same status code.
C10_SameResponseSameResult ==
    \A c, d \in CallIds :
        (/\ calls[c].pc = "done"
         /\ calls[d].pc = "done"
         /\ calls[c].status = calls[d].status
         /\ calls[c].body = calls[d].body)
        => calls[c].result = calls[d].result

C10_Witness ==
    /\ calls["c1"].pc = "done"
    /\ calls["c2"].pc = "done"
    /\ api_key[calls["c1"].client] # api_key[calls["c2"].client]
    /\ calls["c1"].status = OK
    /\ calls["c2"].status = OK
    /\ calls["c1"].body = ObjBody(JStr(""), JObj(AllSix), JInt(7))
    /\ calls["c2"].body = calls["c1"].body
    /\ calls["c1"].result.tag = "Ok"
    /\ calls["c2"].result = calls["c1"].result

\* ---------------------------------------------------------------------
\* Properties of the three operations of a client, checked under SpecLib
\* ---------------------------------------------------------------------

\* the call in slot c has been started and not yet forgotten
Started(c) == calls[c].pc # "idle"

\* the transport failed before any response: the call is over and holds
\* no status
SendFailed(c) == calls[c].pc \in {"done", "panicked"} /\ calls[c].status \notin Statuses

\* C11: every call of lat_long, locality_id or locality sends exactly one
\* GET, whatever its outcome, and runs the interpreter at most once, and
\* only once a response has been received
C11_OneGetOneInterpretation ==
    \A c \in CallIds :
        /\ ~Started(c) => calls[c].gets = 0 /\ calls[c].interps = 0
        /\ Started(c) =>
              /\ calls[c].op \in {"lat_long", "locality_id", "locality"}
              /\ calls[c].gets = 1
              /\ calls[c].request.method = "GET"
              /\ calls[c].interps \in {0, 1}
              /\ calls[c].interps = 1 <=> calls[c].status \in Statuses
              /\ calls[c].pc = "sent" => calls[c].interps = 0
              /\ calls[c].pc \in {"start", "reading"} => calls[c].interps = 1

C11_Witness ==
    /\ calls["c1"].pc = "done"
    /\ calls["c1"].op = "locality"
    /\ calls["c1"].returned = InvalidResponse
    /\ calls["c1"].gets = 1
    /\ calls["c1"].interps = 1

\* C12: a call whose send fails ends outside Result: what reaches the
\* caller is neither Ok nor any of the seven WeatherResponseError variants,
\* and the interpreter has not run
C12_TransportFailureIsNotAResult ==
    \A c \in CallIds :
        SendFailed(c) =>
            /\ calls[c].pc = "panicked"
            /\ calls[c].returned = Panic
            /\ calls[c].returned.tag \notin ({"Ok"} \cup ErrorTags)
            /\ calls[c].interps = 0
            /\ ~calls[c].bodyRead

C12_Witness ==
    /\ calls["c1"].pc = "panicked"
    /\ calls["c1"].op = "lat_long"
    /\ calls["c1"].gets = 1
    /\ calls["c1"].status \notin Statuses
    /\ calls["c1"].returned = Panic

\* C13: once a response is received the caller gets exactly what
\* process_payload makes of its status and body: every error variant
\* unchanged, and Ok for a 200 whose body parses with an empty message
C13_ReturnsInterpreterResult ==
    \A c \in CallIds :
        /\ calls[c].pc = "done" /\ calls[c].status \in Statuses =>
              /\ calls[c].returned = calls[c].result
              /\ calls[c].returned =
                    process_payload(api_key[calls[c].client], calls[c].status,
                                    calls[c].body)
              /\ ( /\ calls[c].status = OK
                   /\ WireContractBody(calls[c].body)
                   /\ calls[c].body.message = JStr("") )
                 => calls[c].returned.tag = "Ok"
        /\ calls[c].pc = "panicked" /\ calls[c].status \in Statuses =>
              /\ calls[c].returned = Panic
              /\ process_payload(api_key[calls[c].client], calls[c].status,
                                 calls[c].body) = Panic

C13_Witness ==
    /\ calls["c1"].pc = "done"
    /\ calls["c1"].op = "lat_long"
    /\ calls["c1"].status = OK
    /\ WireContractBody(calls["c1"].body)
    /\ calls["c1"].body.message = JStr("")
    /\ calls["c1"].returned.tag = "Ok"

\* C14: every request carries the header x-zomato-api-key with the key the
\* client was built with, and the URL of the operation called with that
\* call's arguments in the order latitude, longitude / locality_id
C14_RequestOfTheCall ==
    /\ \A w \in Clients : api_key[w] \in Keys
    /\ \A c \in CallIds :
        Started(c) =>
            /\ calls[c].request.method = "GET"
            /\ calls[c].request.header =
                  [name |-> "x-zomato-api-key", value |-> api_key[calls[c].client]]
            /\ calls[c].op = "lat_long" =>
                  calls[c].request.url =
                     [prefix |-> "https://www.weatherunion.com/gw/weather/external/v0/get_weather_data?",
                      query |-> << [name |-> "latitude",
                                    value |-> [k |-> "f64", n |-> calls[c].arg.lat, s |-> ""]],
                                   [name |-> "longitude",
                                    value |-> [k |-> "f64", n |-> calls[c].arg.long, s |-> ""]] >>]
            /\ calls[c].op = "locality_id" =>
                  calls[c].request.url =
                     [prefix |-> "https://www.weatherunion.com/gw/weather/external/v0/get_locality_weather_data?",
                      query |-> << [name |-> "locality_id",
                                    value |-> [k |-> "str", n |-> 0, s |-> calls[c].arg.id]] >>]
            /\ calls[c].op = "locality" =>
                  calls[c].request.url =
                     [prefix |-> "https://www.weatherunion.com/gw/weather/external/v0/get_locality_weather_data?",
                      query |-> << [name |-> "locality_id",
                                    value |-> [k |-> "str", n |-> 0, s |-> calls[c].arg.lid.code]] >>]

C14_Witness ==
    /\ Started("c1")
    /\ calls["c1"].op = "lat_long"
    /\ calls["c1"].client = "w2"
    /\ api_key["w2"] = "key-b"
    /\ api_key["w1"] = "key-a"
    /\ calls["c1"].arg.lat = 12936787
    /\ calls["c1"].arg.long = 77556079
    /\ calls["c1"].request.header.value = "key-b"

\* C20: no operation changes the api key of any client, a slot that holds no
\* call holds nothing of the calls before it, the operations on a
\* LocalityId and the calls leave each other's state alone, and a call that
\* starts is fixed by its own client, operation and arguments
C20_NoStateBetweenCalls ==
    [][ /\ api_key' = api_key
        /\ calls' # calls => lid' = lid
        /\ lid' # lid => calls' = calls
        /\ \A c \in CallIds :
              /\ calls'[c].pc = "idle" => calls'[c] = NoCall
              /\ calls[c].pc = "idle" /\ calls'[c].pc # "idle" =>
                    calls'[c] = Send(api_key[calls'[c].client], calls'[c].client,
                                     calls'[c].op, calls'[c].arg)
              /\ calls[c].pc # "idle" /\ calls'[c].pc # "idle" =>
                    /\ calls'[c].request = calls[c].request
                    /\ calls'[c].arg = calls[c].arg
                    /\ calls'[c].client = calls[c].client
      ]_vars

C20_Witness ==
    /\ calls["c1"].pc = "done"
    /\ calls["c1"].op = "locality"
    /\ calls["c1"].arg.lid = lid.res.id
    /\ calls["c1"].returned.tag = "Ok"
    /\ lid.src = "from_str"
    /\ lid.out.op = "fmt"
    /\ api_key["w1"] # api_key["w2"]

\* ---------------------------------------------------------------------
\* Properties of LocalityId and the Directory, checked under SpecDir
\* ---------------------------------------------------------------------

\* the rows of the table whose code is the string id
RowsOf(id) == {i \in Entries : Directory[i].code = id}

\* C15: LocalityId::from_str gives the one InvalidLocalityId error for the
\* empty string and for every string that is the code of no row, and for the
\* code of a row it gives a LocalityId whose code is the string passed
C15_FromStrAcceptsExactlyTheCodes ==
    lid.src = "from_str" =>
        IF RowsOf(lid.arg) = {}
        THEN lid.res = [ok |-> FALSE, id |-> [code |-> ""]]
        ELSE lid.res.ok /\ lid.res.id.code = lid.arg

C15_Witness ==
    /\ lid.src = "from_str"
    /\ lid.arg = "NOT_A_CODE"
    /\ ~lid.res.ok

\* C16: the code of every LocalityId held, whether from from_str or from a
\* constant, is the code of exactly one row, and no two rows share a code
C16_OneRowPerLocalityId ==
    /\ Cardinality(Codes) = Len(Directory)
    /\ lid.res.ok => Cardinality(RowsOf(lid.res.id.code)) = 1

C16_Witness ==
    /\ lid.src = "from_str"
    /\ lid.res.ok
    /\ lid.res.id.code = "ZWL003467"
    /\ lid.out.op = "fmt"

\* C17: locality_name and locality_lat_long return Some for every
\* LocalityId held
C17_AccessorsReturnSome ==
    /\ lid.out.op = "locality_name" => lid.out.name.some
    /\ lid.out.op = "locality_lat_long" => lid.out.lat_long.some

C17_Witness ==
    /\ lid.src = "const"
    /\ lid.arg = Directory[Len(Directory)].konst
    /\ lid.out.op = "locality_name"
    /\ lid.out.name.some

\* C18: from_str of the code of a row succeeds, and the name and the
\* coordinates of what it returns are that row's; ZWL003467 is Bengaluru
\* Banashankari at (12.936787, 77.556079)
C18_FromStrGivesTheRow ==
    lid.src = "from_str" =>
        /\ \A i \in RowsOf(lid.arg) :
              /\ lid.res.ok
              /\ lid.out.op = "locality_name" =>
                    lid.out.name = [some |-> TRUE, v |-> Directory[i].name]
              /\ lid.out.op = "locality_lat_long" =>
                    lid.out.lat_long =
                       [some |-> TRUE, v |-> <<Directory[i].lat, Directory[i].long>>]
        /\ lid.arg = "ZWL003467" =>
              /\ lid.res.ok
              /\ lid.out.op = "locality_name" =>
                    lid.out.name.v = "Bengaluru Banashankari"
              /\ lid.out.op = "locality_lat_long" =>
                    lid.out.lat_long.v = <<12936787, 77556079>>

C18_Witness ==
    /\ lid.src = "from_str"
    /\ lid.arg = "ZWL003467"
    /\ lid.out.op = "locality_lat_long"
    /\ lid.out.lat_long.v = <<12936787, 77556079>>

\* C19: formatting a LocalityId gives its code, one space and its name; the
\* text <Unknown LocalityId> stands in for the name only of a code that has
\* no row
C19_DisplayIsCodeSpaceName ==
    lid.out.op = "fmt" =>
        /\ \A i \in RowsOf(lid.res.id.code) :
              lid.out.text = lid.res.id.code \o " " \o Directory[i].name
        /\ lid.out.text = lid.res.id.code \o " " \o "<Unknown LocalityId>" =>
              RowsOf(lid.res.id.code) = {}

C19_Witness ==
    /\ lid.src = "const"
    /\ lid.out.op = "fmt"
    /\ lid.out.text = "ZWL003467 Bengaluru Banashankari"

\* ---------------------------------------------------------------------
\* Properties of calls running side by side, checked under Spec and, for
\* what every call must reach, under SpecLive
\* ---------------------------------------------------------------------

\* C21: in every interleaving each call carries the request of its own
\* client, operation and arguments and returns the interpretation of the
\* response it received itself, and a step of one call changes nothing of
\* another call nor the key of any client
C21_CallsDoNotInterfere ==
    /\ [](\A c \in CallIds :
            /\ Started(c) =>
                  /\ calls[c].request =
                        RequestOf(api_key[calls[c].client], calls[c].op, calls[c].arg)
                  /\ calls[c].request.header.value = api_key[calls[c].client]
            /\ calls[c].pc = "done" =>
                  calls[c].returned =
                     process_payload(api_key[calls[c].client], calls[c].status,
                                     calls[c].body)
            /\ calls[c].pc = "panicked" /\ calls[c].status \in Statuses =>
                  ~calls[c].body.readable)
    /\ [][ /\ api_key' = api_key
           /\ \A c, d \in CallIds :
                 (c # d /\ calls'[c] # calls[c]) => calls'[d] = calls[d]
         ]_vars

C21_Witness ==
    /\ calls["c1"].pc = "done"
    /\ calls["c2"].pc = "done"
    /\ calls["c1"].client # calls["c2"].client
    /\ api_key["w1"] # api_key["w2"]
    /\ calls["c1"].op = "lat_long"
    /\ calls["c2"].op = "locality_id"
    /\ calls["c1"].status = OK
    /\ calls["c2"].status = FORBIDDEN
    /\ calls["c1"].returned.tag = "Ok"
    /\ calls["c2"].returned = CouldNotAuthenticate

\* the call in slot c is over: it returned a Result or it panicked
Completed(c) == calls[c].pc \in {"done", "panicked"}

\* C22: a call that awaits its response has no result and leaves that state
\* only when the transport delivers a response or a failure; a call that has
\* its response completes; a completed call keeps the one outcome it has
\* until its slot is given up
C22_CompletesOnceAfterDelivery ==
    /\ [](\A c \in CallIds :
            calls[c].pc = "sent" =>
               /\ calls[c].result = Pending
               /\ calls[c].returned = Pending
               /\ calls[c].status \notin Statuses)
    /\ [][ \A c \in CallIds :
              /\ (calls[c].pc = "sent" /\ calls'[c] # calls[c]) =>
                    \/ calls'[c].pc = "start" /\ calls'[c].status \in Statuses
                    \/ /\ calls'[c].pc = "panicked"
                       /\ calls'[c].returned = Panic
                       /\ calls'[c].status \notin Statuses
              /\ (Completed(c) /\ calls'[c] # calls[c]) => calls'[c] = NoCall
         ]_vars
    /\ \A c \in CallIds :
          (calls[c].pc \in {"start", "reading"}) ~> Completed(c)

C22_Witness ==
    /\ calls["c1"].pc = "done"
    /\ calls["c1"].status = OK
    /\ calls["c1"].bodyRead
    /\ calls["c1"].returned.tag = "Ok"
    /\ calls["c2"].pc = "sent"
    /\ calls["c2"].returned = Pending

\* ---------------------------------------------------------------------
\* The form of the codes of the Directory, checked under SpecDir
\* ---------------------------------------------------------------------
Digits == {"0", "1", "2", "3", "4", "5", "6", "7", "8", "9"}

\* code is ZWL followed by six digits, nine characters in all
WellFormed(code) ==
    /\ Len(code) = 9
    /\ SubSeq(code, 1, 3) = "ZWL"
    /\ \A i \in 4..9 : SubSeq(code, i, i) \in Digits

\* the rows whose code is not of that form
Exceptions == {i \in Entries : ~WellFormed(Directory[i].code)}

\* C23 as claimed: every code of the Directory is ZWL followed by six
\* digits except the code of exactly one row, so that a LocalityId held has
\* a code of that form or is the one of that row
C23_AsClaimed ==
    /\ Cardinality(Exceptions) = 1
    /\ lid.res.ok =>
          \/ WellFormed(lid.res.id.code)
          \/ Exceptions = {MatchArm(lid.res.id.code)}

\* C23: every code of the Directory is ZWL followed by six digits, with no
\* exception, and so is the code of every LocalityId held
C23_EveryCodeIsZWLAndSixDigits ==
    /\ Exceptions = {}
    /\ lid.res.ok => WellFormed(lid.res.id.code)

C23_Witness ==
    /\ lid.src = "from_str"
    /\ lid.res.ok
    /\ lid.res.id.code = Directory[Len(Directory)].code
    /\ WellFormed(lid.arg)
    /\ lid.out.op = "locality_name"

\* ---------------------------------------------------------------------
\* What the operations do with their arguments, checked under SpecLib
\* ---------------------------------------------------------------------

\* the response of call c is a 200 whose body is of the wire contract, with
\* an empty message
GoodResponse(c) ==
    /\ calls[c].status = OK
    /\ WireContractBody(calls[c].body)
    /\ calls[c].body.message = JStr("")

\* C24: locality_id sends its GET with the string it was given as
\* locality_id, whether or not the string is a code of the Directory or is
\* empty, and returns the interpretation of the response: Ok for a 200 with
\* a valid body
C24_LocalityIdSendsAnyString ==
    \A c \in CallIds :
        (Started(c) /\ calls[c].op = "locality_id") =>
            /\ calls[c].gets = 1
            /\ calls[c].request.url.query =
                  << [name |-> "locality_id",
                      value |-> [k |-> "str", n |-> 0, s |-> calls[c].arg.id]] >>
            /\ calls[c].pc = "done" =>
                  /\ calls[c].status \in Statuses
                  /\ calls[c].returned =
                        process_payload(api_key[calls[c].client], calls[c].status,
                                        calls[c].body)
                  /\ GoodResponse(c) => calls[c].returned.tag = "Ok"

C24_Witness ==
    /\ calls["c1"].pc = "done"
    /\ calls["c1"].op = "locality_id"
    /\ calls["c1"].arg.id = "ZWL008436"
    /\ RowsOf("ZWL008436") = {}
    /\ calls["c1"].gets = 1
    /\ GoodResponse("c1")
    /\ calls["c1"].returned.tag = "Ok"

\* C25: lat_long sends its GET with the two numbers it was given, in range
\* or not, and what it returns is the interpretation of the response: it
\* never returns without a request and a response
C25_LatLongSendsAnyPair ==
    \A c \in CallIds :
        (Started(c) /\ calls[c].op = "lat_long") =>
            /\ calls[c].gets = 1
            /\ calls[c].request.url.query =
                  << [name |-> "latitude",
                      value |-> [k |-> "f64", n |-> calls[c].arg.lat, s |-> ""]],
                     [name |-> "longitude",
                      value |-> [k |-> "f64", n |-> calls[c].arg.long, s |-> ""]] >>
            /\ calls[c].pc = "done" =>
                  /\ calls[c].status \in Statuses
                  /\ calls[c].interps = 1
                  /\ calls[c].returned =
                        process_payload(api_key[calls[c].client], calls[c].status,
                                        calls[c].body)

C25_Witness ==
    /\ calls["c1"].pc = "done"
    /\ calls["c1"].op = "lat_long"
    /\ calls["c1"].arg.lat = 91000000
    /\ calls["c1"].arg.long = -181000000
    /\ calls["c1"].gets = 1
    /\ calls["c1"].status = BAD_REQUEST
    /\ calls["c1"].returned = NotSupported

\* C27: locality(id) sends the request locality_id sends for the code of
\* id, locality_id of a code sends the request locality sends for the
\* LocalityId of that code, and what either returns is fixed by the
\* response alone
C27_LocalityIsLocalityIdOfTheCode ==
    \A c \in CallIds :
        /\ (Started(c) /\ calls[c].op = "locality") =>
              calls[c].request =
                 locality_id_request(api_key[calls[c].client], calls[c].arg.lid.code)
        /\ (Started(c) /\ calls[c].op = "locality_id" /\ RowsOf(calls[c].arg.id) # {}) =>
              calls[c].request =
                 locality_request(api_key[calls[c].client], [code |-> calls[c].arg.id])
        /\ (calls[c].pc = "done" /\ calls[c].op \in {"locality", "locality_id"}) =>
              calls[c].returned =
                 process_payload(api_key[calls[c].client], calls[c].status,
                                 calls[c].body)

C27_Witness ==
    /\ calls["c1"].pc = "done"
    /\ calls["c1"].op = "locality"
    /\ calls["c1"].arg.lid.code = "ZWL003467"
    /\ calls["c1"].request =
          locality_id_request(api_key[calls["c1"].client], "ZWL003467")
    /\ GoodResponse("c1")
    /\ calls["c1"].returned.tag = "Ok"

\* ---------------------------------------------------------------------
\* More properties of process_payload, checked under SpecInterp
\* ---------------------------------------------------------------------

\* C26: Ok, InvalidResponse and TemporarilyUnavailable are results of a
\* status 200 only, and a status 200 has none of ErrorRetrievingData,
\* NotSupported, ApiKeyLimitExhausted, CouldNotAuthenticate, UnknownError
C26_VariantFitsStatus ==
    /\ interp.result.tag \in {"Ok", "InvalidResponse", "TemporarilyUnavailable"}
          => interp.status = OK
    /\ interp.result.tag \in
          {"ErrorRetrievingData", "NotSupported", "ApiKeyLimitExhausted",
           "CouldNotAuthenticate", "UnknownError"}
          => interp.status # OK
    /\ interp.pc = "done" =>
          (interp.status = OK <=>
              interp.result.tag \in {"Ok", "InvalidResponse", "TemporarilyUnavailable"})

C26_Witness ==
    /\ interp.pc = "done"
    /\ interp.status = OK
    /\ interp.body.message = JStr("station offline")
    /\ interp.result = TemporarilyUnavailable("station offline")

\* device_type is a number that is no integer of 0..255
NotU8Number(j) ==
    \/ j.t = "float"
    \/ j.t = "int" /\ (j.v < 0 \/ j.v > 255)

\* C28: a 200 body whose device_type is a number that is negative, above
\* 255 or written with a fraction is InvalidResponse, whatever the message,
\* and no record carries a device made from it
C28_DeviceTypeOutOfU8IsInvalidResponse ==
    (Done200 /\ NotU8Number(interp.body.device_type))
    => /\ interp.result = InvalidResponse
       /\ interp.result.tag # "Ok"
       /\ interp.result.data.device = 0

C28_Witness ==
    /\ Done200
    /\ interp.body = ObjBody(JStr(""), JObj(AllSix), JInt(256))
    /\ interp.result = InvalidResponse

\* C29: a 200 body whose locality_weather_data holds, under any key, a
\* value that is neither a number nor null is InvalidResponse, the six
\* measurements being valid or not
C29_NonNumberValueIsInvalidResponse ==
    (/\ Done200
     /\ interp.body.locality_weather_data.t = "obj"
     /\ \E k \in DOMAIN interp.body.locality_weather_data.o :
           interp.body.locality_weather_data.o[k].t \notin {"null", "int", "float"})
    => interp.result = InvalidResponse

C29_Witness ==
    /\ Done200
    /\ interp.body.form = "object"
    /\ interp.body.message = JStr("")
    /\ interp.body.device_type = JInt(7)
    /\ interp.body.locality_weather_data.t = "obj"
    /\ DOMAIN interp.body.locality_weather_data.o = MeasurementKeys \cup {ExtraKey}
    /\ \A k \in MeasurementKeys : IsNumber(interp.body.locality_weather_data.o[k])
    /\ interp.body.locality_weather_data.o[ExtraKey] = JStr("S-17")
    /\ interp.result = InvalidResponse

====
